---------------------------- MODULE Spec2Model ----------------------------
(***************************************************************************)
(* Order-completion tracker (EToroTrading.waitForOrder / pollOrderStatus), *)
(* the typed event emitter it listens on, and the WebSocket session        *)
(* (WsClient) of the eToro SDK.                                            *)
(*                                                                         *)
(* Time is the value of Date.now() in milliseconds.  It advances in steps  *)
(* of TickMs; a timer fires in a step of its own once the clock has        *)
(* reached its deadline, and the clock does not pass a deadline that is    *)
(* still armed.                                                            *)
(***************************************************************************)
EXTENDS Integers, Sequences, FiniteSets, TLC

VARIABLES
    now,                \* Date.now()
    waits,              \* one record per waitForOrder call (closure state + promise)
    listeners,          \* EToroTrading listeners.get('order:update'), insertion order
    ws,                 \* WsClient.ws: socket id, or NoSocket for null
    readyState,         \* readyState of every socket created so far
    subscriptions,      \* WsClient.subscriptions (WsSubscriptionTracker)
    authenticated,      \* WsClient.authenticated
    reconnectAttempts,  \* WsClient.reconnectAttempts
    intentionalClose,   \* WsClient.intentionalClose
    reconnectTimer,     \* WsClient.reconnectTimer: "null", "armed" (the newest armed
                        \* reconnect timer) or "stale" (a handle that has fired)
    reconnectTimers,    \* deadlines of the armed reconnect timers, oldest first
    heartbeatTimer,     \* next deadline of the heartbeat interval, or Cleared
    pongTimer,          \* WsClient.pongTimer: "null", "armed" or "stale"
    pongTimers,         \* deadlines of the armed pong timers, oldest first
    lastPongAt,         \* WsClient._lastPongAt
    conns,              \* per socket: the connect() promise, the authenticate()
                        \* promise and its timeout timer
    authListeners,      \* listeners.get('authenticated') of the WsClient: the sockets
                        \* whose authenticate() registered a once-listener
    wire,               \* per socket, the far end and the ws library: Authenticate
                        \* operations and pings not answered yet, abort and destroy flags
    heldAtClose,        \* history: the subscription set as it was at the latest
    wsOptions,          \* heartbeatInterval and heartbeatTimeout the WsClient was constructed with
                        \* close that the caller did not ask for
    timestamps,         \* RateLimiter.timestamps
    penaltyUntil,       \* RateLimiter.penaltyUntil
    queue,              \* RateLimiter.queue: the acquire() calls waiting, oldest first
    processing,         \* RateLimiter.processing
    disposed,           \* RateLimiter._disposed
    pqWake,             \* the sleep processQueue() is suspended in, or Cleared
    calls,              \* one record per acquire() call, in the order of the calls
    options,            \* the RetryOptions of the retry() call
    retrying,           \* the retry() call: its loop variables and its promise
    requests,           \* one record per HttpClient.request() call, in the order of the calls
    envelope,           \* the entries of the envelope handed to parseMessages
    parsed              \* what parseMessages(envelope) came to

sessionVars ==
    <<authenticated, reconnectAttempts, intentionalClose, reconnectTimer, reconnectTimers,
      heartbeatTimer, pongTimer, pongTimers, lastPongAt, conns, authListeners, wire,
      heldAtClose, wsOptions>>

wsVars == <<ws, readyState, subscriptions, sessionVars>>

limiterVars == <<timestamps, penaltyUntil, queue, processing, disposed, pqWake, calls>>

retryVars == <<options, retrying>>

httpVars == <<limiterVars, retryVars, requests>>

parserVars == <<envelope, parsed>>

vars == <<now, waits, listeners, wsVars, httpVars, parserVars>>

orderVars == <<waits, listeners>>

-----------------------------------------------------------------------------
(* Bounds of the model *)

MaxWaits == 2
MaxTicks == 4
MaxSockets == 2
WsMaxTicks == 4
MaxCalls == 4
LimMaxNow == 5
MaxEntries == 2
MaxSegments == 2
MaxHttpRequests == 3
MaxRetryAttempts == 2
HttpMaxNow == 3

(* Program constants *)

PollDelayCapMs == 3000
PollIntervalMs == 500

Pending == 1
Filling == 2
Executed == 3
Failed == 4
Cancelled == 5

TickMs == PollIntervalMs
Horizon == MaxTicks * TickMs
WsHorizon == WsMaxTicks * TickMs

(* Options the WsClient is constructed with *)
MaxReconnectAttempts == 2
ReconnectDelayMs == TickMs
AuthTimeoutMs == 2 * TickMs
HeartbeatIntervalMs == wsOptions.heartbeatInterval
HeartbeatTimeoutMs == wsOptions.heartbeatTimeout

DefaultWsOptions == [heartbeatInterval |-> 2 * TickMs, heartbeatTimeout |-> TickMs]

(* Configurations of the heartbeat: the timeout shorter than the interval, and longer *)
HeartbeatOptions ==
    { DefaultWsOptions, [heartbeatInterval |-> TickMs, heartbeatTimeout |-> 2 * TickMs] }

TopicLists == { {"instrument:100000"} }

OrderIds == {111, 222}
WaitIds == {111}
Timeouts == {2000}
StatusIds == {Pending, Filling, Executed, Failed, Cancelled}

Undefined == "undefined"
NoSocket == 0
Cleared == -1

(* The optional fields of a private event as they come off the wire. *)
PlainProfile == [ErrorMessage |-> Undefined, CloseReason |-> Undefined, ErrorCode |-> Undefined]

ErrorProfiles ==
    { [ErrorMessage |-> "Insufficient funds", CloseReason |-> "User cancelled", ErrorCode |-> "1001"],
      [ErrorMessage |-> Undefined, CloseReason |-> "User cancelled", ErrorCode |-> Undefined],
      PlainProfile }

EventProfiles(s) == IF s \in {Failed, Cancelled} THEN ErrorProfiles ELSE {PlainProfile}

PrivateEvents ==
    { [OrderID |-> o, StatusID |-> sp[1], ErrorMessage |-> sp[2].ErrorMessage,
       CloseReason |-> sp[2].CloseReason, ErrorCode |-> sp[2].ErrorCode] :
        o \in OrderIds,
        sp \in UNION { {<<s, p>> : p \in EventProfiles(s)} : s \in StatusIds } }

(* What rest.info.getOrder can produce: an order record with a status, a
   failure that is an EToroError (EToroApiError, EToroAuthError), or any other
   failure (a network TypeError). *)
GetOrderOutcomes ==
    { [kind |-> "info", statusID |-> s] : s \in StatusIds }
        \cup { [kind |-> "EToroError", statusID |-> 0], [kind |-> "TypeError", statusID |-> 0] }

-----------------------------------------------------------------------------
(* Message envelope parser: parseMessages *)

(* A topic is the list of its parts between colons (topic.split(':')), a part
   is the list of its characters; the words of the protocol count as one
   character each. *)
Parts == { <<"instrument">>, <<"private">>, <<>>, <<"1">>, <<"1", "0">>, <<"a">>,
           <<"1", "a">> }

Topics == UNION { [1..n -> Parts] : n \in 1..MaxSegments }

(* An entry of an envelope; the content is JSON text or is not *)
Entries == [topic : Topics, content : {"json", "malformed"}]

Envelopes == UNION { [1..n -> Entries] : n \in 0..MaxEntries }

IsDigit(ch) == ch \in {"0", "1"}

DigitValue(ch) == IF ch = "1" THEN 1 ELSE 0

NaN == [nan |-> TRUE, n |-> 0]

RECURSIVE parseDigits(_, _)
parseDigits(chars, acc) ==
    IF chars = <<>> \/ ~IsDigit(Head(chars)) THEN acc
    ELSE parseDigits(Tail(chars), acc * 10 + DigitValue(Head(chars)))

(* parseInt(text, 10): the digits the text starts with, NaN if there is none *)
parseInt(chars) ==
    IF chars = <<>> \/ ~IsDigit(Head(chars)) THEN NaN
    ELSE [nan |-> FALSE, n |-> parseDigits(chars, 0)]

(* msg.topic.startsWith('instrument:') *)
startsWithInstrument(topic) == Len(topic) >= 2 /\ topic[1] = <<"instrument">>

(* msg.topic === 'private' *)
isPrivate(topic) == topic = << <<"private">> >>

(* The body of the loop of parseMessages for an entry whose content parses *)
classify(msg) ==
    IF startsWithInstrument(msg.topic)
    THEN [type |-> "instrument:rate", instrumentId |-> parseInt(msg.topic[2]), raw |-> msg]
    ELSE IF isPrivate(msg.topic)
    THEN [type |-> "private:event", instrumentId |-> NaN, raw |-> msg]
    ELSE [type |-> "unknown", instrumentId |-> NaN, raw |-> msg]

(* JSON.parse(msg.content) throws *)
contentThrows(msg) ==
    /\ startsWithInstrument(msg.topic) \/ isPrivate(msg.topic)
    /\ msg.content = "malformed"

NotParsed == [done |-> FALSE, thrown |-> FALSE, results |-> <<>>]

(* parseMessages(envelope): the results, or the exception of the first entry
   whose content JSON.parse rejects *)
parseMessages(messages) ==
    IF \E k \in 1..Len(messages) : contentThrows(messages[k])
    THEN [done |-> TRUE, thrown |-> TRUE, results |-> <<>>]
    ELSE [done |-> TRUE, thrown |-> FALSE,
          results |-> [k \in 1..Len(messages) |-> classify(messages[k])]]

NoEnvelope ==
    /\ envelope = <<>>
    /\ parsed = NotParsed

-----------------------------------------------------------------------------
(* WebSocket session: WsClient *)

IsConnected == ws # NoSocket /\ readyState[ws] = "OPEN"

SubscribeFrame(topics) == [operation |-> "Subscribe", topics |-> topics]

UnsubscribeFrame(topics) == [operation |-> "Unsubscribe", topics |-> topics]

AuthenticateFrame == [operation |-> "Authenticate", topics |-> {}]

(* this.ws.send(JSON.stringify(msg)) *)
OnWire(sock, msg) == [sock |-> sock, msg |-> msg]

(* Inbound text frames, by what JSON.parse makes of them *)
AuthSuccess ==
    [json |-> TRUE, isNull |-> FALSE, operation |-> "Authenticate", type |-> Undefined,
     errorCode |-> Undefined, hasMessages |-> FALSE, messages |-> <<>>]

AuthFailure ==
    [json |-> TRUE, isNull |-> FALSE, operation |-> Undefined, type |-> "Authenticate",
     errorCode |-> "AuthenticationFailed", hasMessages |-> FALSE, messages |-> <<>>]

Envelope ==
    [json |-> TRUE, isNull |-> FALSE, operation |-> Undefined, type |-> Undefined,
     errorCode |-> Undefined, hasMessages |-> TRUE,
     messages |-> << [topic |-> << <<"instrument">>, <<"1">> >>, content |-> "json"],
                     [topic |-> << <<"private">> >>, content |-> "json"] >>]

(* Text that JSON.parse rejects *)
NotJson ==
    [json |-> FALSE, isNull |-> FALSE, operation |-> Undefined, type |-> Undefined,
     errorCode |-> Undefined, hasMessages |-> FALSE, messages |-> <<>>]

(* The text `null`: JSON.parse accepts it and reading a property of it throws *)
JsonNull == [NotJson EXCEPT !.json = TRUE, !.isNull = TRUE]

(* A JSON value without an Authenticate marker and without a messages array *)
OddShape == [NotJson EXCEPT !.json = TRUE]

(* An envelope with an entry of a recognized topic whose content JSON.parse
   rejects, after an entry that is in order *)
BadEnvelope == [Envelope EXCEPT !.messages[2].content = "malformed"]

(* Entries of the envelopes that arrive: an instrument topic, the private
   topic and a topic of neither kind, each with content that is JSON text and
   with content that is not *)
WireEntries ==
    [topic : { << <<"instrument">>, <<"1">> >>, << <<"private">> >>, << <<"a">> >> },
     content : {"json", "malformed"}]

EnvelopeFrames ==
    { [Envelope EXCEPT !.messages = m] :
        m \in UNION { [1..n -> WireEntries] : n \in 0..MaxEntries } }

AuthFrames == {AuthSuccess, AuthFailure}
MalformedFrames == {NotJson, JsonNull, OddShape, BadEnvelope}
DataFrames == {Envelope} \cup MalformedFrames

(* Reasons a connect() promise rejects with *)
AuthTimedOut == "WebSocket authentication timed out"
NotConnected == "WebSocket not connected"
SocketFailed == "socket error"

(* connect(): the promise it returns, who awaits it, and the closure of the
   authenticate() call its open handler makes *)
NewConn(via) ==
    [promise |-> "pending", reason |-> "none", via |-> via,
     authP |-> "none", authTimer |-> Cleared]

(* pinged is history: when each ping not answered yet was sent, oldest first *)
NewWire ==
    [authReq |-> 0, pings |-> 0, pinged |-> <<>>, aborted |-> FALSE, destroyed |-> FALSE]

(* A socket whose connection is gone: nothing is pending on it any more *)
DeadWire == [NewWire EXCEPT !.destroyed = TRUE]

(* this.emit(event, ...) *)
Emit(c, event) == [c EXCEPT !.emitted = Append(@, event)]

(* Mutant: send() only asks whether the session holds a socket *)
CanSendAnySocket(c) == c.ws # NoSocket

(* The test of send(): it throws 'WebSocket not connected' otherwise *)
CanSend(c) == c.ws # NoSocket /\ c.readyState[c.ws] = "OPEN"

(* throw error: the call ends here and its caller sees the error *)
Throw(c, error) == [c EXCEPT !.thrown = error]

send(c, msg) ==
    [c EXCEPT !.sent = Append(@, OnWire(c.ws, msg)),
              !.wire[c.ws].authReq = @ + (IF msg.operation = "Authenticate" THEN 1 ELSE 0)]

subscribe(c, topics) ==
    LET added == [c EXCEPT !.subscriptions = @ \cup topics] IN
    IF CanSend(added) THEN send(added, SubscribeFrame(topics))
    ELSE Throw(added, NotConnected)

unsubscribe(c, topics) ==
    LET removed == [c EXCEPT !.subscriptions = @ \ topics] IN
    IF CanSend(removed) THEN send(removed, UnsubscribeFrame(topics))
    ELSE Throw(removed, NotConnected)

(* clearTimeout of the newest timer of a list when the handle is armed *)
DropNewest(handle, timers) ==
    IF handle = "armed" THEN SubSeq(timers, 1, Len(timers) - 1) ELSE timers

(* Timer k of a list fires: what the handle field refers to afterwards *)
AfterFiring(handle, timers, k) ==
    IF handle = "armed" /\ k = Len(timers) THEN "stale" ELSE handle

RemoveAt(seq, k) == SubSeq(seq, 1, k - 1) \o SubSeq(seq, k + 1, Len(seq))

ClearPongTimer(c) ==
    IF c.pongTimer = "null" THEN c
    ELSE [c EXCEPT !.pongTimers = DropNewest(c.pongTimer, @), !.pongTimer = "null"]

stopHeartbeat(c) == ClearPongTimer([c EXCEPT !.heartbeatTimer = Cleared])

startHeartbeat(c) ==
    IF HeartbeatIntervalMs <= 0 THEN c
    ELSE [stopHeartbeat(c) EXCEPT !.heartbeatTimer = now + HeartbeatIntervalMs]

(* The continuation of `await this.connect()` in the reconnect timer; its
   catch logs what subscribe() throws *)
Resubscribe(c) ==
    IF c.subscriptions # {} THEN [subscribe(c, c.subscriptions) EXCEPT !.thrown = "none"]
    ELSE c

(* resolve() and reject() of the promise connect() returned for socket s *)
ResolveConnect(c, s) ==
    IF c.conns[s].promise # "pending" THEN c
    ELSE LET resolved == [c EXCEPT !.conns[s].promise = "resolved"] IN
         IF c.conns[s].via = "reconnect" THEN Resubscribe(resolved) ELSE resolved

RejectConnect(c, s, reason) ==
    IF c.conns[s].promise # "pending" THEN c
    ELSE [c EXCEPT !.conns[s].promise = "rejected", !.conns[s].reason = reason]

authenticate(c, s) ==
    LET armed == [c EXCEPT !.conns[s].authP = "pending",
                           !.conns[s].authTimer = now + AuthTimeoutMs,
                           !.authListeners = Append(@, s)]
    IN  IF CanSend(armed) THEN send(armed, AuthenticateFrame)
        ELSE RejectConnect([armed EXCEPT !.conns[s].authP = "rejected"], s, NotConnected)

(* authHandler of the authenticate() call made for socket s, and the .then of
   the open handler that follows it *)
authHandler(c, s) ==
    LET cleared == [c EXCEPT !.conns[s].authTimer = Cleared] IN
    IF c.conns[s].authP # "pending" THEN cleared
    ELSE ResolveConnect(startHeartbeat([cleared EXCEPT !.conns[s].authP = "resolved"]), s)

(* emit('authenticated'): every once-wrapper unregisters itself and calls its
   authHandler *)
RECURSIVE EmitAuthenticated(_)
EmitAuthenticated(c) ==
    IF c.authListeners = <<>> THEN c
    ELSE EmitAuthenticated(
            authHandler([c EXCEPT !.authListeners = Tail(@)], Head(c.authListeners)))

(* Mutant: the authentication timeout resolves *)
AuthTimeoutResolves(c, s) ==
    IF c.conns[s].authP # "pending" THEN c
    ELSE ResolveConnect(startHeartbeat([c EXCEPT !.conns[s].authP = "resolved"]), s)

(* The callback of the timeout timer of authenticate() *)
AuthTimeoutSettles(c, s) ==
    IF c.conns[s].authP # "pending" THEN c
    ELSE RejectConnect([c EXCEPT !.conns[s].authP = "rejected"], s, AuthTimedOut)

(* for (const msg of parsed) switch (msg.type) *)
RECURSIVE EmitParsed(_, _)
EmitParsed(c, results) ==
    IF results = <<>> THEN c
    ELSE EmitParsed(
            IF Head(results).type \in {"instrument:rate", "private:event"}
            THEN Emit(c, Head(results).type) ELSE c,
            Tail(results))

(* parseMessages(envelope) throws: JSON.parse of the content of an entry *)
parseMessagesThrows(messages) ==
    parseMessages(messages).thrown

(* Mutant: an entry whose content does not parse is skipped, the others fan out *)
TryHandleMessageSkipsBad(c, raw) ==
    IF raw.json /\ ~raw.isNull /\ raw.hasMessages
    THEN EmitParsed(Emit(c, "message"),
                    parseMessages(SelectSeq(raw.messages,
                                            LAMBDA msg : ~contentThrows(msg))).results)
    ELSE c

(* The try block of handleMessage *)
TryHandleMessage(c, raw) ==
    IF ~raw.json THEN Throw(c, "SyntaxError")
    ELSE IF raw.isNull THEN Throw(c, "TypeError")
    ELSE IF raw.operation = "Authenticate" \/ raw.type = "Authenticate"
    THEN IF raw.errorCode # Undefined
         THEN Emit(c, "error:auth")
         ELSE EmitAuthenticated(Emit([c EXCEPT !.authenticated = TRUE], "authenticated"))
    ELSE IF raw.hasMessages
    THEN IF parseMessagesThrows(raw.messages)
         THEN Throw(Emit(c, "message"), "SyntaxError")
         ELSE EmitParsed(Emit(c, "message"), parseMessages(raw.messages).results)
    ELSE c

(* Mutant: handleMessage without its catch *)
handleMessageUncaught(c, raw) == TryHandleMessage(c, raw)

(* The catch of handleMessage logs the error *)
handleMessage(c, raw) == [TryHandleMessage(c, raw) EXCEPT !.thrown = "none"]

RECURSIVE Pow2(_)
Pow2(n) == IF n = 0 THEN 1 ELSE 2 * Pow2(n - 1)

attemptReconnect(c) ==
    IF c.reconnectAttempts >= MaxReconnectAttempts
    THEN Emit(c, "error:max-reconnect")
    ELSE [c EXCEPT !.reconnectAttempts = @ + 1,
                   !.reconnectTimers = Append(@, now + ReconnectDelayMs * Pow2(c.reconnectAttempts)),
                   !.reconnectTimer = "armed"]

(* Handlers connect() installs on socket s *)
onOpen(c, s) == authenticate(Emit([c EXCEPT !.reconnectAttempts = 0], "open"), s)

onPong(c, s) == ClearPongTimer([c EXCEPT !.lastPongAt = now])

onClose(c, s) ==
    LET closed == Emit(stopHeartbeat([c EXCEPT !.authenticated = FALSE]), "close") IN
    IF ~closed.intentionalClose THEN attemptReconnect(closed) ELSE closed

onError(c, s) == RejectConnect(Emit(c, "error:socket"), s, SocketFailed)

connect(c, via) ==
    [c EXCEPT !.intentionalClose = FALSE,
              !.ws = Len(c.readyState) + 1,
              !.readyState = Append(@, "CONNECTING"),
              !.conns = Append(@, NewConn(via)),
              !.wire = Append(@, NewWire)]

(* ws.close(code, reason): starts the closing handshake of an open socket and
   aborts the handshake of a connecting one, which then reports an error
   before it reports its close *)
close(c, s) ==
    IF c.readyState[s] = "OPEN" THEN [c EXCEPT !.readyState[s] = "CLOSING"]
    ELSE IF c.readyState[s] = "CONNECTING"
    THEN [c EXCEPT !.readyState[s] = "CLOSING", !.wire[s].aborted = TRUE]
    ELSE c

(* ws.terminate(): like close, and nothing more arrives on a destroyed socket *)
terminate(c, s) ==
    IF c.readyState[s] = "OPEN"
    THEN [c EXCEPT !.readyState[s] = "CLOSING", !.wire[s] = DeadWire]
    ELSE close(c, s)

disconnect(c) ==
    LET stopped == stopHeartbeat([c EXCEPT !.intentionalClose = TRUE])
        untimed == IF stopped.reconnectTimer = "null" THEN stopped
                   ELSE [stopped EXCEPT !.reconnectTimers = DropNewest(stopped.reconnectTimer, @),
                                        !.reconnectTimer = "null"]
        closed == IF untimed.ws = NoSocket THEN untimed
                  ELSE [close(untimed, untimed.ws) EXCEPT !.ws = NoSocket]
    IN  [closed EXCEPT !.authenticated = FALSE, !.subscriptions = {}]

(* The callback of the heartbeat interval *)
heartbeat(c) ==
    LET next == [c EXCEPT !.heartbeatTimer = now + HeartbeatIntervalMs] IN
    IF ~CanSend(next) THEN next
    ELSE [next EXCEPT !.wire[c.ws].pings = @ + 1,
                      !.wire[c.ws].pinged = Append(@, now),
                      !.pongTimers = Append(@, now + HeartbeatTimeoutMs),
                      !.pongTimer = "armed"]

(* The callback of a pong timer *)
pongTimeout(c) == IF c.ws = NoSocket THEN c ELSE terminate(c, c.ws)

-----------------------------------------------------------------------------
(* Rate limiter: RateLimiter.  Its clock advances by one millisecond. *)

(* Options the RateLimiter is constructed with *)
MaxRequests == 2
WindowMs == 2

(* Arguments of penalize(retryAfterMs) *)
RetryAfters == {1, 2}

LimiterDisposed == "RateLimiter disposed"

(* The sleep processQueue() is suspended in: the one of its penalty test, or
   the one that waits for the oldest timestamp to expire *)
NoSleep == [kind |-> "none", at |-> Cleared]

(* An acquire() call: its promise, the sleep it is suspended in, and the
   timestamp it recorded; behind is history, the oldest timestamp of the
   window at the moment the call was queued *)
NewCall ==
    [state |-> "running", wake |-> Cleared, slot |-> Cleared, reason |-> "none",
     behind |-> Cleared]

RECURSIVE pruneTimestamps(_)
pruneTimestamps(l) ==
    IF Len(l.timestamps) > 0 /\ l.timestamps[1] < now - WindowMs
    THEN pruneTimestamps([l EXCEPT !.timestamps = Tail(@)])
    ELSE l

(* this.timestamps.push(Date.now()), and acquire() call i returns or its
   queue entry resolves *)
Grant(l, i) ==
    [l EXCEPT !.timestamps = Append(@, now),
              !.calls[i].state = "resolved",
              !.calls[i].slot = now]

RECURSIVE processQueueLoop(_)

(* Mutant: processQueue() serves the head of the queue whatever the usage *)
processQueueBodyEager(l) ==
    IF l.queue = <<>> THEN processQueueLoop(l)
    ELSE processQueueLoop(Grant([l EXCEPT !.queue = Tail(@)], Head(l.queue)))

(* The body of the loop of processQueue() after its penalty test *)
processQueueBody(l) ==
    LET pruned == pruneTimestamps(l) IN
    IF Len(pruned.timestamps) < MaxRequests
    THEN IF pruned.queue = <<>> THEN processQueueLoop(pruned)
         ELSE processQueueLoop(Grant([pruned EXCEPT !.queue = Tail(@)], Head(pruned.queue)))
    ELSE LET waitMs == pruned.timestamps[1] + WindowMs - now + 1 IN
         IF waitMs > 0 THEN [pruned EXCEPT !.pqWake = [kind |-> "window", at |-> now + waitMs]]
         ELSE processQueueLoop(pruned)

(* The loop of processQueue(), from its test to the next sleep or to its end *)
processQueueLoop(l) ==
    IF l.queue # <<>> /\ ~l.disposed
    THEN IF l.penaltyUntil > now
         THEN [l EXCEPT !.pqWake = [kind |-> "penalty", at |-> l.penaltyUntil]]
         ELSE processQueueBody(l)
    ELSE [l EXCEPT !.processing = FALSE]

processQueue(l) ==
    IF l.processing \/ l.disposed THEN l
    ELSE processQueueLoop([l EXCEPT !.processing = TRUE])

(* Mutant: acquire() records a timestamp whatever the usage *)
acquireSlotUnlimited(l, i) == Grant(pruneTimestamps(l), i)

(* acquire() after its penalty test *)
acquireSlot(l, i) ==
    LET pruned == pruneTimestamps(l) IN
    IF Len(pruned.timestamps) < MaxRequests THEN Grant(pruned, i)
    ELSE processQueue([pruned EXCEPT !.queue = Append(@, i), !.calls[i].state = "queued"])

acquire(l) ==
    LET i == Len(l.calls) + 1
        called == [l EXCEPT !.calls = Append(@, NewCall)]
    IN  IF l.disposed THEN [called EXCEPT !.calls[i].state = "resolved"]
        ELSE IF l.penaltyUntil > now
        THEN [called EXCEPT !.calls[i].state = "sleeping", !.calls[i].wake = l.penaltyUntil]
        ELSE acquireSlot(called, i)

penalize(l, retryAfterMs) ==
    LET until == now + retryAfterMs IN
    IF until > l.penaltyUntil THEN [l EXCEPT !.penaltyUntil = until] ELSE l

(* Mutant: dispose() drops the queue without rejecting its entries *)
disposeSilently(l) == [l EXCEPT !.disposed = TRUE, !.queue = <<>>]

(* dispose(): entry.reject(...) for every entry, then queue.length = 0 *)
dispose(l) ==
    [l EXCEPT !.disposed = TRUE,
              !.queue = <<>>,
              !.calls = [i \in DOMAIN l.calls |->
                            IF \E k \in 1..Len(l.queue) : l.queue[k] = i
                            THEN [l.calls[i] EXCEPT !.state = "rejected",
                                                    !.reason = LimiterDisposed]
                            ELSE l.calls[i]]]

(* new RateLimiter(options) *)
NewLimiter ==
    /\ timestamps = <<>>
    /\ penaltyUntil = 0
    /\ queue = <<>>
    /\ processing = FALSE
    /\ disposed = FALSE
    /\ pqWake = NoSleep
    /\ calls = <<>>

-----------------------------------------------------------------------------
(* Retry engine: retry(fn, options) *)

NoRetryAfter == -1

(* Failures of the operation.  n is the invocation that raised the error, so
   that two errors are the same object only if they are equal. *)
Failure(kind, status, retryAfterMs) ==
    [n |-> 0, kind |-> kind, status |-> status, retryAfterMs |-> retryAfterMs]

Failures ==
    { Failure("EToroRateLimitError", 429, ms) : ms \in {NoRetryAfter, 0, 3} }
        \cup { Failure("EToroApiError", st, NoRetryAfter) : st \in {404, 500} }
        \cup { Failure("EToroAuthError", 401, NoRetryAfter),
               Failure("TypeError", 0, NoRetryAfter) }

(* The value undefined, and the error a failing onRetry hook throws *)
UndefinedError == Failure("undefined", 0, NoRetryAfter)
HookError == Failure("hook", 0, NoRetryAfter)

(* Values of Math.random() * 2 - 1, in halves *)
JitterDraws == {-2, -1, 0, 1}

(* Mutant: every API failure is retried *)
isRetryableAnyStatus(error) ==
    \/ error.kind = "EToroRateLimitError"
    \/ error.kind = "EToroApiError"
    \/ error.kind = "TypeError"

(* HttpClient.isRetryable *)
isRetryable(error) ==
    \/ error.kind = "EToroRateLimitError"
    \/ error.kind = "EToroApiError" /\ error.status >= 500
    \/ error.kind = "TypeError"

(* options.shouldRetry(error): a predicate that is always false, or the one
   of HttpClient *)
shouldRetry(opts, error) == opts.shouldRetry = "isRetryable" /\ isRetryable(error)

(* options.getRetryAfterMs?.(error): no extractor, one that returns the
   retryAfterMs of the error as it is, or the one of HttpClient *)
getRetryAfterMs(opts, error) ==
    IF opts.getRetryAfterMs = "none" THEN NoRetryAfter
    ELSE IF opts.getRetryAfterMs = "field" THEN error.retryAfterMs
    ELSE IF error.kind = "EToroRateLimitError" /\ error.retryAfterMs > 0
    THEN error.retryAfterMs
    ELSE NoRetryAfter

RECURSIVE Pow(_, _)
Pow(b, n) == IF n = 0 THEN 1 ELSE b * Pow(b, n - 1)

(* ms + (Math.random() * 2 - 1) * ms * 0.25 *)
applyJitter(ms, draw) == ms + (draw * (ms \div 4)) \div 2

(* Mutant: the backoff starts at delay * backoffMultiplier *)
backoffLate(opts, attempt) == opts.delay * Pow(opts.backoffMultiplier, attempt + 1)

(* delay * Math.pow(backoffMultiplier, attempt) *)
backoff(opts, attempt) == opts.delay * Pow(opts.backoffMultiplier, attempt)

(* The wait retry() computes after a failure in iteration `attempt` *)
waitFor(opts, attempt, error, draw) ==
    LET retryAfter == getRetryAfterMs(opts, error)
        waitMs == IF retryAfter # NoRetryAfter THEN retryAfter ELSE backoff(opts, attempt)
    IN  IF opts.jitter /\ retryAfter = NoRetryAfter THEN applyJitter(waitMs, draw)
        ELSE waitMs

(* The state of a retry() call: pc is "idle" before the call, "calling" while
   fn() is awaited, "sleeping" in sleep(waitMs), then "returned" or "thrown" *)
NotRetrying ==
    [pc |-> "idle", attempt |-> 0, invocations |-> 0, lastError |-> UndefinedError,
     thrown |-> UndefinedError, waitMs |-> 0, notified |-> <<>>]

(* The head of the for loop: fn() is invoked, or throw lastError after it *)
retryLoop(r, opts) ==
    IF r.attempt < opts.attempts
    THEN [r EXCEPT !.pc = "calling", !.invocations = @ + 1]
    ELSE [r EXCEPT !.pc = "thrown", !.thrown = r.lastError]

(* The catch block, error being the failure of this invocation *)
retryCatch(r, opts, error, draw) ==
    LET caught == [r EXCEPT !.lastError = error] IN
    IF r.attempt < opts.attempts - 1 /\ shouldRetry(opts, error)
    THEN LET waitMs == waitFor(opts, r.attempt, error, draw) IN
         IF opts.onRetry = "throws"
         THEN [caught EXCEPT !.pc = "thrown", !.thrown = HookError]
         ELSE [caught EXCEPT
                 !.pc = "sleeping", !.waitMs = waitMs,
                 !.notified = IF opts.onRetry = "none" THEN @
                              ELSE Append(@, <<r.attempt + 1, waitMs, error>>)]
    ELSE [caught EXCEPT !.pc = "thrown", !.thrown = error]

(* `continue` after sleep(waitMs): attempt++ and the head of the loop *)
retryContinue(r, opts) == retryLoop([r EXCEPT !.attempt = @ + 1], opts)

(* The options of HttpClient.request, and the ones retry() is checked with *)
RetryOptions ==
    [attempts : 0..3, delay : {8}, backoffMultiplier : {2}, jitter : BOOLEAN,
     shouldRetry : {"never", "isRetryable"},
     getRetryAfterMs : {"none", "field", "http"},
     onRetry : {"none", "returns", "throws"}]

HttpOptions(retryAttempts, retryDelay) ==
    [attempts |-> retryAttempts, delay |-> retryDelay, backoffMultiplier |-> 2, jitter |-> TRUE,
     shouldRetry |-> "isRetryable", getRetryAfterMs |-> "http", onRetry |-> "returns"]

NoRetry ==
    /\ options = HttpOptions(3, 8)
    /\ retrying = NotRetrying
    /\ requests = <<>>
    /\ NoEnvelope

HttpIdle == NewLimiter /\ NoRetry

-----------------------------------------------------------------------------
(* Values a waitForOrder promise settles with *)

NoValue == [kind |-> "none"]

NotConnectedError ==
    [kind |-> "error", text |-> "WebSocket not connected - call connect() before waitForOrder()"]

TimeoutError(orderId, timeoutMs) ==
    [kind |-> "error", text |-> "Timeout waiting for order", orderId |-> orderId,
     afterMs |-> timeoutMs]

StatusName(s) ==
    CASE s = Pending -> "Pending"
      [] s = Filling -> "Filling"
      [] s = Executed -> "Executed"
      [] s = Failed -> "Failed"
      [] s = Cancelled -> "Cancelled"
      [] OTHER -> Undefined

(* a ?? b *)
Coalesce(a, b) == IF a # Undefined THEN a ELSE b

(* Mutant: the close reason is preferred to the error message *)
OrderErrorReasonCloseFirst(event) ==
    Coalesce(event.CloseReason, Coalesce(event.ErrorMessage, "unknown reason"))

OrderErrorReason(event) ==
    Coalesce(event.ErrorMessage, Coalesce(event.CloseReason, "unknown reason"))

OrderError(orderId, event) ==
    [kind |-> "error", text |-> "Order", orderId |-> orderId,
     status |-> StatusName(event.StatusID),
     reason |-> OrderErrorReason(event),
     errorCode |-> Coalesce(event.ErrorCode, "none")]

WsResult(event) == [kind |-> "event", via |-> "ws", event |-> event]

RestResult(orderId, info) ==
    [kind |-> "event", via |-> "rest",
     event |-> [OrderID |-> orderId, StatusID |-> info.statusID,
                ErrorMessage |-> Undefined, CloseReason |-> "", ErrorCode |-> Undefined]]

-----------------------------------------------------------------------------
(* Promise and closure state of one wait *)

(* resolve()/reject() of the promise: the first call decides, later ones are
   counted and change nothing. *)
SettlePromise(w, how, value) ==
    [w EXCEPT !.promise = IF w.promise = "pending" THEN how ELSE @,
              !.value = IF w.promise = "pending" THEN value ELSE @,
              !.settleCalls = @ + 1]

Remove(seq, x) == SelectSeq(seq, LAMBDA y : y # x)

(* cleanup(): both timers cleared (the caller removes the listener) *)
ClearTimers(w) == [w EXCEPT !.timeout = Cleared, !.pollTimer = Cleared]

Min(a, b) == IF a < b THEN a ELSE b

(* Math.min(3_000, timeoutMs / 2); every timeout of the model is even *)
PollDelay(timeoutMs) == Min(PollDelayCapMs, timeoutMs \div 2)

(* The closure created by the promise executor of waitForOrder *)
NewWait(orderId, timeoutMs) ==
    [orderId |-> orderId, timeoutMs |-> timeoutMs, created |-> now,
     settled |-> FALSE, promise |-> "pending", value |-> NoValue, settleCalls |-> 0,
     timeout |-> now + timeoutMs,
     pollTimer |-> now + PollDelay(timeoutMs),
     pollPc |-> "unstarted", pollStart |-> 0, pollWake |-> 0]

(* The promise of a call that throws before the executor runs *)
ThrownWait(orderId, timeoutMs, error) ==
    [NewWait(orderId, timeoutMs) EXCEPT !.promise = "rejected", !.value = error,
                                        !.settleCalls = 1, !.timeout = Cleared,
                                        !.pollTimer = Cleared]

(* settled = true; cleanup(); resolve(value) or reject(value) for wait i, on
   a state st = [waits, listeners] *)
Settle(st, i, how, value) ==
    [waits |-> [st.waits EXCEPT
                  ![i] = SettlePromise(ClearTimers([@ EXCEPT !.settled = TRUE]), how, value)],
     listeners |-> Remove(st.listeners, i)]

(* Mutant: the handler does not compare the order id *)
HandlerIgnoresOrderId(w, event) == ~w.settled

(* if (event.OrderID !== orderId || settled) return; *)
HandlerMatches(w, event) == event.OrderID = w.orderId /\ ~w.settled

(* handler of wait i *)
handler(st, i, event) ==
    LET w == st.waits[i] IN
    IF ~HandlerMatches(w, event) THEN st
    ELSE IF event.StatusID = Executed THEN Settle(st, i, "resolved", WsResult(event))
    ELSE IF event.StatusID \in {Failed, Cancelled}
         THEN Settle(st, i, "rejected", OrderError(w.orderId, event))
    ELSE st

(* Mutant: listeners kept in an array that is spliced while it is iterated by index *)
ArrayIterNext(removed, k) == k + 1

(* for (const fn of set): the position of the next listener visited, after the
   listener at position k has run and has or has not deleted itself. A Set
   iterator visits every entry that is still in the set. *)
SetIterNext(removed, k) == IF removed THEN k ELSE k + 1

RECURSIVE EmitFrom(_, _, _)
EmitFrom(st, k, event) ==
    IF k > Len(st.listeners) THEN st
    ELSE LET fn == st.listeners[k]
             after == handler(st, fn, event)
             removed == \A j \in 1..Len(after.listeners) : after.listeners[j] # fn
         IN EmitFrom(after, SetIterNext(removed, k), event)

(* TypedEventEmitter.emit('order:update', event) *)
emit(st, event) == IF Len(st.listeners) = 0 THEN st ELSE EmitFrom(st, 1, event)

(* pollOrderStatus returns or throws: its frame, and with it start, is gone *)
PollEnds(st, i, how) ==
    [st EXCEPT !.waits[i].pollPc = how, !.waits[i].pollStart = 0, !.waits[i].pollWake = 0]

(* The timeoutMs argument of pollOrderStatus: timeoutMs - pollDelay *)
PollBudget(w) == w.timeoutMs - PollDelay(w.timeoutMs)

(* Mutant: the .then of the poll does not look at settled *)
PollThenUnguarded(w) == TRUE

(* .then of the poll: if (settled) return; *)
PollThenGuard(w) == ~w.settled

PollThen(st, i, info) ==
    IF ~PollThenGuard(st.waits[i]) THEN st
    ELSE Settle(st, i, "resolved", RestResult(st.waits[i].orderId, info))

(* Mutant: the .catch of the poll runs cleanup() *)
PollCatchCleansUp(st, i) == [st EXCEPT !.waits[i] = ClearTimers(@)]

(* Mutant: the .catch of the poll rejects the wait with the poll's error *)
PollCatchRejects(st, i) ==
    IF st.waits[i].settled THEN st
    ELSE Settle(st, i, "rejected", [kind |-> "error", text |-> "REST poll fallback failed"])

(* .catch of the poll: the error is logged when the wait is unsettled *)
PollCatch(st, i) == st

(* Head of the loop of pollOrderStatus, entered at the start and after every
   sleep: another getOrder request, or the poll's own timeout error. *)
PollLoopHead(st, i) ==
    LET w == st.waits[i] IN
    IF now - w.pollStart < PollBudget(w)
    THEN [st EXCEPT !.waits[i].pollPc = "fetching", !.waits[i].pollWake = 0]
    ELSE PollCatch(PollEnds(st, i, "threw"), i)

-----------------------------------------------------------------------------
(* Operations of the tracker *)

Here == [waits |-> waits, listeners |-> listeners]

Becomes(st) == waits' = st.waits /\ listeners' = st.listeners

WaitForOrder(orderId, timeoutMs) ==
    /\ Len(waits) < MaxWaits
    /\ now + timeoutMs <= Horizon
    /\ IF ~IsConnected
       THEN /\ waits' = Append(waits, ThrownWait(orderId, timeoutMs, NotConnectedError))
            /\ UNCHANGED <<listeners, subscriptions>>
       ELSE /\ subscriptions' = subscriptions \cup {"private"}
            /\ waits' = Append(waits, NewWait(orderId, timeoutMs))
            /\ listeners' = Append(listeners, Len(waits) + 1)
    /\ UNCHANGED <<now, ws, readyState, sessionVars, httpVars, parserVars>>

(* The callback of the timeout timer *)
TimeoutFires(i) ==
    /\ waits[i].timeout # Cleared
    /\ now >= waits[i].timeout
    /\ LET fired == [Here EXCEPT !.waits[i].timeout = Cleared] IN
       IF waits[i].settled THEN Becomes(fired)
       ELSE Becomes(Settle(fired, i, "rejected",
                           TimeoutError(waits[i].orderId, waits[i].timeoutMs)))
    /\ UNCHANGED <<now, wsVars, httpVars, parserVars>>

(* The callback of the poll timer: starts pollOrderStatus *)
PollTimerFires(i) ==
    /\ waits[i].pollTimer # Cleared
    /\ now >= waits[i].pollTimer
    /\ LET fired == [Here EXCEPT !.waits[i].pollTimer = Cleared] IN
       IF waits[i].settled THEN Becomes(fired)
       ELSE Becomes(PollLoopHead(
                [fired EXCEPT !.waits[i].pollStart = now], i))
    /\ UNCHANGED <<now, wsVars, httpVars, parserVars>>

(* rest.info.getOrder settles, and the loop body of pollOrderStatus runs up
   to its return, its throw or its sleep *)
GetOrderSettles(i, outcome) ==
    /\ waits[i].pollPc = "fetching"
    /\ LET sleeping == [Here EXCEPT !.waits[i].pollPc = "sleeping",
                                    !.waits[i].pollWake = now + PollIntervalMs]
           threw == PollEnds(Here, i, "threw")
           returned == PollEnds(Here, i, "returned")
       IN  IF outcome.kind = "info"
           THEN IF outcome.statusID = Executed THEN Becomes(PollThen(returned, i, outcome))
                ELSE IF outcome.statusID \in {Cancelled, Failed} THEN Becomes(PollCatch(threw, i))
                ELSE Becomes(sleeping)
           ELSE IF outcome.kind = "EToroError" THEN Becomes(PollCatch(threw, i))
           ELSE Becomes(sleeping)
    /\ UNCHANGED <<now, wsVars, httpVars, parserVars>>

(* sleep(pollIntervalMs) of the poll loop ends *)
PollWakes(i) ==
    /\ waits[i].pollPc = "sleeping"
    /\ now >= waits[i].pollWake
    /\ Becomes(PollLoopHead(Here, i))
    /\ UNCHANGED <<now, wsVars, httpVars, parserVars>>

(* ws 'private:event' -> this.emit('order:update', event) *)
PrivateEvent(event) ==
    /\ Becomes(emit(Here, event))
    /\ UNCHANGED <<now, wsVars, httpVars, parserVars>>

TimerDue(i) ==
    \/ waits[i].timeout # Cleared /\ waits[i].timeout <= now
    \/ waits[i].pollTimer # Cleared /\ waits[i].pollTimer <= now
    \/ waits[i].pollPc = "sleeping" /\ waits[i].pollWake <= now

Tick ==
    /\ now < Horizon
    /\ \A i \in 1..Len(waits) : ~TimerDue(i)
    /\ now' = now + TickMs
    /\ UNCHANGED <<waits, listeners, wsVars, httpVars, parserVars>>

(* The session the tracker runs on: never connected, or one socket that
   connected and authenticated at time 0.  The tracker's operations leave the
   session as it is, apart from the 'private' subscription. *)
InitOrder ==
    /\ wsOptions = DefaultWsOptions
    /\ now = 0
    /\ waits = <<>>
    /\ listeners = <<>>
    /\ ws \in {NoSocket, 1}
    /\ readyState = IF ws = NoSocket THEN <<>> ELSE <<"OPEN">>
    /\ subscriptions = {}
    /\ authenticated = (ws # NoSocket)
    /\ reconnectAttempts = 0
    /\ intentionalClose = FALSE
    /\ reconnectTimer = "null"
    /\ reconnectTimers = <<>>
    /\ heartbeatTimer = IF ws = NoSocket THEN Cleared ELSE HeartbeatIntervalMs
    /\ pongTimer = "null"
    /\ pongTimers = <<>>
    /\ lastPongAt = 0
    /\ conns = IF ws = NoSocket THEN <<>>
               ELSE << [NewConn("user") EXCEPT !.promise = "resolved", !.authP = "resolved"] >>
    /\ authListeners = <<>>
    /\ wire = IF ws = NoSocket THEN <<>> ELSE <<NewWire>>
    /\ heldAtClose = {}
    /\ HttpIdle

NextOrder ==
    \/ \E o \in WaitIds, t \in Timeouts : WaitForOrder(o, t)
    \/ \E i \in 1..Len(waits) : TimeoutFires(i)
    \/ \E i \in 1..Len(waits) : PollTimerFires(i)
    \/ \E i \in 1..Len(waits), outcome \in GetOrderOutcomes : GetOrderSettles(i, outcome)
    \/ \E i \in 1..Len(waits) : PollWakes(i)
    \/ \E event \in PrivateEvents : PrivateEvent(event)
    \/ Tick

SpecOrder == InitOrder /\ [][NextOrder]_vars

-----------------------------------------------------------------------------
(* Properties of the order tracker, checked under SpecOrder *)

Unsettled(w) == w.promise = "pending"

IsListening(i) == \E k \in 1..Len(listeners) : listeners[k] = i

Terminal(event) == event.StatusID \in {Executed, Failed, Cancelled}

(* What a terminal event settles a wait on orderId with *)
WsOutcome(orderId, event) ==
    IF event.StatusID = Executed THEN WsResult(event) ELSE OrderError(orderId, event)

(* C1: each wait settles exactly once. resolve/reject is called at most once
   per wait, and once a wait has an outcome no later signal (event, poll
   result, timer) changes that outcome or settles it again. *)
C1_SettlesExactlyOnce ==
    [][\A i \in 1..Len(waits') :
          /\ waits'[i].settleCalls <= 1
          /\ (i <= Len(waits) /\ ~Unsettled(waits[i]))
                => /\ waits'[i].promise = waits[i].promise
                   /\ waits'[i].value = waits[i].value
                   /\ waits'[i].settleCalls = waits[i].settleCalls]_vars

(* C1 witness: the WS event won and the poll's Executed result came later *)
C1_Witness ==
    \E i \in 1..Len(waits) :
        /\ waits[i].promise = "resolved" /\ waits[i].value.via = "ws"
        /\ waits[i].pollPc = "returned"

(* State reached from the current one by delivering event: PrivateEvent(event)
   is enabled in every state and has exactly this result. *)
After(event) == emit(Here, event)

ListensIn(st, i) == \E k \in 1..Len(st.listeners) : st.listeners[k] = i

(* C2: in every reachable state, delivering a matching Executed event resolves
   a pending wait with that event; delivering an event for another order id,
   or a Pending or Filling event for the same id, leaves the wait as it was,
   still listening. *)
C2_ResolvesOnMatchingExecuted ==
    \A event \in PrivateEvents : \A i \in 1..Len(waits) : Unsettled(waits[i]) =>
        IF event.OrderID = waits[i].orderId /\ event.StatusID = Executed
        THEN /\ After(event).waits[i].promise = "resolved"
             /\ After(event).waits[i].value = WsResult(event)
        ELSE (event.OrderID # waits[i].orderId \/ event.StatusID \in {Pending, Filling})
                => /\ After(event).waits[i] = waits[i]
                   /\ IsListening(i) /\ ListensIn(After(event), i)

(* C2 witness: a wait resolved with the Executed event of its order *)
C2_Witness ==
    \E i \in 1..Len(waits) :
        /\ waits[i].promise = "resolved" /\ waits[i].value.via = "ws"
        /\ waits[i].value.event.OrderID = waits[i].orderId
        /\ waits[i].value.event.StatusID = Executed

(* C3: in every reachable state, delivering a Failed or Cancelled event of its
   order rejects a pending wait; the error names the status, carries the
   event's error message, or its close reason when there is no error message,
   and its error code. *)
C3_RejectsOnFailedOrCancelled ==
    \A event \in PrivateEvents : \A i \in 1..Len(waits) :
        (/\ Unsettled(waits[i])
         /\ event.OrderID = waits[i].orderId
         /\ event.StatusID \in {Failed, Cancelled})
        => LET w == After(event).waits[i] IN
           /\ w.promise = "rejected"
           /\ w.value.orderId = waits[i].orderId
           /\ w.value.status = (IF event.StatusID = Failed THEN "Failed" ELSE "Cancelled")
           /\ (event.ErrorMessage # Undefined => w.value.reason = event.ErrorMessage)
           /\ (event.ErrorMessage = Undefined /\ event.CloseReason # Undefined
                  => w.value.reason = event.CloseReason)
           /\ (event.ErrorCode # Undefined => w.value.errorCode = event.ErrorCode)

(* C3 witness: a wait rejected with the close reason of a Cancelled event that
   had no error message, and one rejected with an error message and code *)
C3_Witness ==
    \E i \in 1..Len(waits) :
        /\ waits[i].promise = "rejected" /\ waits[i].value.text = "Order"
        /\ waits[i].value.status = "Cancelled"
        /\ waits[i].value.reason = "User cancelled"
        /\ waits[i].value.errorCode = "none"

(* C4: a wait is pending no later than timeoutMs after the call, its timeout
   timer armed for that instant until then; a wait that was rejected by
   neither an order event nor the connection check was rejected with the
   timeout error naming its order id and timeoutMs. *)
C4_TimeoutBoundsTheWait ==
    \A i \in 1..Len(waits) :
        /\ Unsettled(waits[i])
              => /\ now <= waits[i].created + waits[i].timeoutMs
                 /\ waits[i].timeout = waits[i].created + waits[i].timeoutMs
        /\ (waits[i].promise = "rejected" /\ waits[i].value.text \notin {"Order", NotConnectedError.text})
              => waits[i].value = TimeoutError(waits[i].orderId, waits[i].timeoutMs)

(* C4 witness: the poll failed and the wait was rejected by its timeout, at
   the instant the timeout was due *)
C4_Witness ==
    \E i \in 1..Len(waits) :
        /\ waits[i].value = TimeoutError(waits[i].orderId, waits[i].timeoutMs)
        /\ waits[i].promise = "rejected"
        /\ waits[i].pollPc = "threw"
        /\ now = waits[i].created + waits[i].timeoutMs

(* C5: once a wait has settled its timers are cleared, its listener is
   unregistered and no further getOrder request is issued for it. *)
C5_NoWorkAfterSettle ==
    [][\A i \in 1..Len(waits) : waits[i].settled =>
          /\ waits[i].timeout = Cleared /\ waits[i].pollTimer = Cleared
          /\ ~IsListening(i)
          /\ (waits[i].pollPc # "fetching" => waits'[i].pollPc # "fetching")]_vars

(* C6: an unsettled wait whose poll observes Executed resolves with the
   result built from it, and one whose poll observes Failed or Cancelled
   rejects. *)
C6_PollSettlesLikeWs ==
    [][\A i \in 1..Len(waits), outcome \in GetOrderOutcomes :
          (GetOrderSettles(i, outcome) /\ ~waits[i].settled /\ outcome.kind = "info")
          => /\ outcome.statusID = Executed
                  => /\ waits'[i].promise = "resolved"
                     /\ waits'[i].value = RestResult(waits[i].orderId, outcome)
             /\ outcome.statusID \in {Failed, Cancelled}
                  => waits'[i].promise = "rejected"]_vars

(* C7: when the poll of a pending wait ends with an error the wait stays
   pending, with its timeout timer armed and its listener registered. *)
C7_PollErrorNotSurfaced ==
    [][\A i \in 1..Len(waits) :
          (Unsettled(waits[i]) /\ waits[i].pollPc # "threw" /\ waits'[i].pollPc = "threw")
          => /\ Unsettled(waits'[i]) /\ ~waits'[i].settled
             /\ waits'[i].timeout = waits[i].timeout /\ waits[i].timeout # Cleared
             /\ IsListening(i) /\ IsListening(i)']_vars

(* C7 witness: the poll failed and a later WS event settled the wait *)
C7_Witness ==
    \E i \in 1..Len(waits) :
        /\ waits[i].pollPc = "threw"
        /\ (waits[i].value.kind = "event" \/ (waits[i].value.kind = "error" /\ waits[i].value.text = "Order"))
        /\ waits[i].settleCalls = 1 /\ waits[i].settled

(* C8: in every reachable state, delivering a terminal event settles every
   pending wait on its order id, all with the outcome of that event, removes
   exactly their listeners and leaves every other wait as it was. *)
C8_ConcurrentWaitsAllSettle ==
    \A event \in PrivateEvents : Terminal(event) =>
        \A i \in 1..Len(waits) :
            IF Unsettled(waits[i]) /\ waits[i].orderId = event.OrderID
            THEN /\ After(event).waits[i].promise =
                        (IF event.StatusID = Executed THEN "resolved" ELSE "rejected")
                 /\ After(event).waits[i].value = WsOutcome(waits[i].orderId, event)
                 /\ ~ListensIn(After(event), i)
            ELSE /\ After(event).waits[i] = waits[i]
                 /\ IsListening(i) <=> ListensIn(After(event), i)

(* C8 witness: two waits on one order id settled by the same event *)
C8_Witness ==
    \E i, j \in 1..Len(waits) :
        /\ i < j /\ waits[i].orderId = waits[j].orderId
        /\ waits[i].value.kind = "event" /\ waits[i].value.via = "ws"
        /\ waits[j].value = waits[i].value
        /\ waits[i].promise = "resolved" /\ waits[j].promise = "resolved"

-----------------------------------------------------------------------------
(* Operations and events of the WebSocket session *)

(* The session as a handler finds it; sent and emitted collect the frames the
   handler hands to ws.send() and the events it emits, thrown is the error the
   call throws to its caller *)
WsHere ==
    [ws |-> ws, readyState |-> readyState, subscriptions |-> subscriptions, sent |-> <<>>,
     authenticated |-> authenticated, reconnectAttempts |-> reconnectAttempts,
     intentionalClose |-> intentionalClose, reconnectTimer |-> reconnectTimer,
     reconnectTimers |-> reconnectTimers, heartbeatTimer |-> heartbeatTimer,
     pongTimer |-> pongTimer, pongTimers |-> pongTimers, lastPongAt |-> lastPongAt,
     conns |-> conns, authListeners |-> authListeners, wire |-> wire, emitted |-> <<>>,
     thrown |-> "none", heldAtClose |-> heldAtClose]

WsBecomes(c) ==
    /\ ws' = c.ws /\ readyState' = c.readyState /\ subscriptions' = c.subscriptions
    /\ authenticated' = c.authenticated
    /\ reconnectAttempts' = c.reconnectAttempts /\ intentionalClose' = c.intentionalClose
    /\ reconnectTimer' = c.reconnectTimer /\ reconnectTimers' = c.reconnectTimers
    /\ heartbeatTimer' = c.heartbeatTimer /\ pongTimer' = c.pongTimer
    /\ pongTimers' = c.pongTimers /\ lastPongAt' = c.lastPongAt
    /\ conns' = c.conns /\ authListeners' = c.authListeners /\ wire' = c.wire
    /\ heldAtClose' = c.heldAtClose
    /\ UNCHANGED wsOptions
    /\ UNCHANGED <<now, waits, listeners, httpVars, parserVars>>

Sockets == 1..Len(readyState)

(* client.connect() *)
Connect ==
    /\ Len(readyState) < MaxSockets
    /\ WsBecomes(connect(WsHere, "user"))

(* client.disconnect() *)
Disconnect == WsBecomes(disconnect(WsHere))

(* client.subscribe(topics) and client.unsubscribe(topics) *)
Subscribe(topics) == WsBecomes(subscribe(WsHere, topics))

Unsubscribe(topics) == WsBecomes(unsubscribe(WsHere, topics))

(* 'open' of socket s *)
SocketOpen(s) ==
    /\ readyState[s] = "CONNECTING"
    /\ WsBecomes(onOpen([WsHere EXCEPT !.readyState[s] = "OPEN"], s))

(* 'message' of socket s.  The far end answers each Authenticate operation it
   received on a socket with one authentication frame on that socket; data
   frames arrive at any time. *)
SocketMessage(s, raw) ==
    /\ readyState[s] \in {"OPEN", "CLOSING"}
    /\ ~wire[s].destroyed /\ ~wire[s].aborted
    /\ IF raw \in AuthFrames
       THEN /\ wire[s].authReq > 0
            /\ WsBecomes(handleMessage([WsHere EXCEPT !.wire[s].authReq = @ - 1], raw))
       ELSE WsBecomes(handleMessage(WsHere, raw))

(* 'pong' of socket s, the answer to one of its pings *)
SocketPong(s) ==
    /\ readyState[s] \in {"OPEN", "CLOSING"}
    /\ ~wire[s].destroyed /\ ~wire[s].aborted
    /\ wire[s].pings > 0
    /\ WsBecomes(onPong([WsHere EXCEPT !.wire[s].pings = @ - 1,
                                       !.wire[s].pinged = Tail(@)], s))

(* 'error' of socket s: the connection attempt or the open connection fails,
   or a handshake that close() aborted reports it *)
SocketError(s) ==
    /\ \/ readyState[s] \in {"CONNECTING", "OPEN"}
       \/ readyState[s] = "CLOSING" /\ wire[s].aborted
    /\ WsBecomes(onError([WsHere EXCEPT !.readyState[s] = "CLOSING",
                                       !.wire[s] = DeadWire], s))

(* 'close' of socket s *)
SocketClose(s) ==
    /\ readyState[s] \in {"OPEN", "CLOSING"}
    /\ ~wire[s].aborted
    /\ WsBecomes(onClose([WsHere EXCEPT
            !.readyState[s] = "CLOSED",
            !.wire[s] = DeadWire,
            !.heldAtClose = IF intentionalClose THEN @ ELSE subscriptions], s))

AuthTimeoutFires(s) ==
    /\ conns[s].authTimer # Cleared
    /\ now >= conns[s].authTimer
    /\ WsBecomes(AuthTimeoutSettles([WsHere EXCEPT !.conns[s].authTimer = Cleared], s))

(* The callback of reconnect timer k: connect(), awaited *)
ReconnectTimerFires(k) ==
    /\ now >= reconnectTimers[k]
    /\ Len(readyState) < MaxSockets
    /\ WsBecomes(connect([WsHere EXCEPT
            !.reconnectTimers = RemoveAt(@, k),
            !.reconnectTimer = AfterFiring(@, reconnectTimers, k)], "reconnect"))

HeartbeatFires ==
    /\ heartbeatTimer # Cleared
    /\ now >= heartbeatTimer
    /\ WsBecomes(heartbeat(WsHere))

PongTimeoutFires(k) ==
    /\ now >= pongTimers[k]
    /\ WsBecomes(pongTimeout([WsHere EXCEPT
            !.pongTimers = RemoveAt(@, k),
            !.pongTimer = AfterFiring(@, pongTimers, k)]))

WsTimerDue ==
    \/ \E s \in Sockets : conns[s].authTimer # Cleared /\ conns[s].authTimer <= now
    \/ \E k \in 1..Len(reconnectTimers) : reconnectTimers[k] <= now
    \/ heartbeatTimer # Cleared /\ heartbeatTimer <= now
    \/ \E k \in 1..Len(pongTimers) : pongTimers[k] <= now

WsTick ==
    /\ now < WsHorizon
    /\ ~WsTimerDue
    /\ now' = now + TickMs
    /\ UNCHANGED <<waits, listeners, wsVars, httpVars, parserVars>>

(* new WsClient(options) *)
Unconnected ==
    /\ now = 0
    /\ waits = <<>>
    /\ listeners = <<>>
    /\ ws = NoSocket
    /\ readyState = <<>>
    /\ subscriptions = {}
    /\ authenticated = FALSE
    /\ reconnectAttempts = 0
    /\ intentionalClose = FALSE
    /\ reconnectTimer = "null"
    /\ reconnectTimers = <<>>
    /\ heartbeatTimer = Cleared
    /\ pongTimer = "null"
    /\ pongTimers = <<>>
    /\ lastPongAt = 0
    /\ conns = <<>>
    /\ authListeners = <<>>
    /\ wire = <<>>
    /\ heldAtClose = {}

NewSession == Unconnected /\ wsOptions = DefaultWsOptions

InitWs == NewSession /\ HttpIdle

(* The session under every configuration of the heartbeat *)
InitHeartbeat ==
    /\ Unconnected
    /\ wsOptions \in HeartbeatOptions
    /\ HttpIdle

NextWs ==
    \/ Connect
    \/ Disconnect
    \/ \E topics \in TopicLists : Subscribe(topics)
    \/ \E topics \in TopicLists : Unsubscribe(topics)
    \/ \E s \in Sockets : SocketOpen(s)
    \/ \E s \in Sockets, raw \in AuthFrames \cup DataFrames : SocketMessage(s, raw)
    \/ \E s \in Sockets : SocketPong(s)
    \/ \E s \in Sockets : SocketError(s)
    \/ \E s \in Sockets : SocketClose(s)
    \/ \E s \in Sockets : AuthTimeoutFires(s)
    \/ \E k \in 1..Len(reconnectTimers) : ReconnectTimerFires(k)
    \/ HeartbeatFires
    \/ \E k \in 1..Len(pongTimers) : PongTimeoutFires(k)
    \/ WsTick

SpecWs == InitWs /\ [][NextWs]_vars

SpecHeartbeat == InitHeartbeat /\ [][NextWs]_vars

-----------------------------------------------------------------------------
(* Properties of the WebSocket session, checked under SpecWs *)

(* The step turns the authenticated flag on *)
BecomesAuthenticated == authenticated' /\ ~authenticated

(* The step resolves the promise of some connect() call *)
ConnectResolves ==
    \E s \in 1..Len(conns') :
        /\ conns'[s].promise = "resolved"
        /\ s \in 1..Len(conns) => conns[s].promise # "resolved"

(* C9: the authenticated flag turns on, and a connect() promise resolves, only
   in a step that handles an authentication-success frame, received on a
   socket on which an Authenticate operation was sent and not answered yet;
   a resolved connect() is one whose authenticate() resolved. *)
C9_AuthenticatedOnlyOnSuccessFrame ==
    [][/\ (BecomesAuthenticated \/ ConnectResolves)
            => \E s \in Sockets : wire[s].authReq > 0 /\ SocketMessage(s, AuthSuccess)
       /\ \A s \in 1..Len(conns') :
            conns'[s].promise = "resolved" => conns'[s].authP = "resolved"]_vars

(* C9 witness: connect() resolved on the socket the session holds, after the
   answer to its Authenticate operation *)
C9_Witness ==
    /\ ws # NoSocket /\ readyState[ws] = "OPEN"
    /\ authenticated
    /\ conns[ws].promise = "resolved"
    /\ wire[ws].authReq = 0

(* C10: when an authentication error frame is handled on a socket whose
   connect() is pending on its authenticate(), an authentication error is
   emitted, that connect() is rejected in the same step and the session does
   not turn authenticated. *)
C10_ErrorFrameRejectsConnect ==
    [][\A s \in Sockets :
          (/\ SocketMessage(s, AuthFailure)
           /\ conns[s].promise = "pending" /\ conns[s].authP = "pending")
          => /\ handleMessage(WsHere, AuthFailure).emitted = <<"error:auth">>
             /\ conns'[s].promise = "rejected"
             /\ ~BecomesAuthenticated]_vars

(* C11: when the authentication timer fires for a pending connect(), that
   connect() is rejected with the authentication timeout and its socket is
   closed, so that the session is not connected through it. *)
C11_AuthTimeoutAbortsConnect ==
    [][\A s \in Sockets :
          (/\ AuthTimeoutFires(s)
           /\ conns[s].promise = "pending" /\ conns[s].authP = "pending")
          => /\ conns'[s].promise = "rejected" /\ conns'[s].reason = AuthTimedOut
             /\ readyState'[s] \in {"CLOSING", "CLOSED"}
             /\ ~(ws' = s /\ readyState'[s] = "OPEN")]_vars

(* The step arms a reconnect timer *)
ReconnectScheduled == Len(reconnectTimers') > Len(reconnectTimers)

(* C12: a reconnect timer is armed only by the close of a socket whose
   connect() had resolved, and not while the caller has disconnected; the
   close of a socket whose connect() failed arms none. *)
C12_ReconnectOnlyAfterEstablished ==
    [][ReconnectScheduled
          => \E s \in Sockets :
                /\ SocketClose(s)
                /\ ~intentionalClose
                /\ conns[s].promise = "resolved"]_vars

(* Socket s was open when disconnect() closed it, and its close event has not
   been delivered yet: only ws.close() leaves a socket closing without
   destroying it. *)
ClosedByDisconnect(s) ==
    readyState[s] = "CLOSING" /\ ~wire[s].destroyed /\ ~wire[s].aborted

(* C13: the close event of a socket that disconnect() closed arms no reconnect
   timer and does not count as a reconnect attempt. *)
C13_DisconnectCloseNeverReconnects ==
    [][\A s \in Sockets :
          (SocketClose(s) /\ ClosedByDisconnect(s))
          => /\ ~ReconnectScheduled
             /\ reconnectAttempts' = reconnectAttempts]_vars

(* C14: from disconnect() until the caller connects again no reconnect timer
   is armed, so that the reconnect path opens no socket. *)
C14_DisconnectCancelsReconnect == intentionalClose => reconnectTimers = <<>>

(* C15: in every reachable state, disconnect() leaves the session without a
   socket, not authenticated, with an empty subscription set and with no
   heartbeat interval, pong timer or reconnect timer armed. *)
C15_DisconnectClearsSession ==
    LET after == disconnect(WsHere) IN
    /\ after.ws = NoSocket
    /\ ~after.authenticated
    /\ after.subscriptions = {}
    /\ after.heartbeatTimer = Cleared
    /\ after.pongTimers = <<>>
    /\ after.reconnectTimers = <<>>

(* The deadline of the reconnect timer the step armed *)
NewestReconnect == reconnectTimers'[Len(reconnectTimers')]

(* C16: a reconnection attempt whose socket closes without having
   authenticated, all earlier sockets being closed, counts as an attempt: the
   close either schedules a later attempt after at least twice the base delay
   or gives up with the 'Max reconnect attempts reached' error. *)
C16_FailedAttemptsAreCounted ==
    [][\A s \in Sockets :
          (/\ SocketClose(s)
           /\ conns[s].via = "reconnect" /\ conns[s].authP # "resolved"
           /\ ~intentionalClose
           /\ \A t \in Sockets \ {s} : t < s /\ readyState[t] = "CLOSED")
          => IF ReconnectScheduled
             THEN NewestReconnect >= now + 2 * ReconnectDelayMs
             ELSE "error:max-reconnect" \in
                    { attemptReconnect(WsHere).emitted[k] :
                        k \in 1..Len(attemptReconnect(WsHere).emitted) }]_vars

(* The connect() the reconnect timer made for socket s resolves in this step *)
ReconnectSucceeds(s) ==
    /\ conns[s].via = "reconnect"
    /\ conns[s].promise = "pending"
    /\ conns'[s].promise = "resolved"

(* The Subscribe operations among the frames a handler sent *)
SubscribesIn(frames) == SelectSeq(frames, LAMBDA f : f.msg.operation = "Subscribe")

(* C17: when the reconnection to a session that had been established succeeds,
   every earlier socket being closed and the caller not having disconnected,
   the step sends one Subscribe operation with exactly the topics the
   subscription set held at the unexpected close, and none when it held none. *)
C17_ResubscribesTopicsHeldAtClose ==
    [][\A s \in Sockets :
          (/\ SocketMessage(s, AuthSuccess)
           /\ ReconnectSucceeds(s)
           /\ ws = s
           /\ \A t \in Sockets \ {s} :
                 readyState[t] = "CLOSED" /\ conns[t].promise = "resolved")
          => SubscribesIn(handleMessage(WsHere, AuthSuccess).sent)
                = IF heldAtClose = {} THEN <<>>
                  ELSE <<OnWire(s, SubscribeFrame(heldAtClose))>>]_vars

(* C18: in every reachable state in which the session is not connected,
   subscribe(topics) and unsubscribe(topics) throw 'WebSocket not connected'
   to their caller and hand no frame to any socket. *)
C18_SubscribeFailsFast ==
    \A topics \in TopicLists :
        ~IsConnected
        => /\ subscribe(WsHere, topics).thrown = NotConnected
           /\ subscribe(WsHere, topics).sent = <<>>
           /\ unsubscribe(WsHere, topics).thrown = NotConnected
           /\ unsubscribe(WsHere, topics).sent = <<>>

(* C18 witness: subscribe() was called while the only socket of the session
   was still connecting *)
C18_Witness ==
    /\ ws = 1 /\ readyState = <<"CONNECTING">>
    /\ ~IsConnected
    /\ subscriptions # {}

(* Socket s is the one the session holds and every other socket is closed *)
SoleSocket(s) == ws = s /\ \A t \in Sockets \ {s} : readyState[t] = "CLOSED"

(* The heartbeat interval is armed and due within heartbeatInterval *)
HeartbeatRuns ==
    /\ heartbeatTimer # Cleared
    /\ heartbeatTimer <= now + HeartbeatIntervalMs

(* C19: while the only live socket of the session is open and authenticated,
   the heartbeat interval is armed; each time it fires a ping goes out on the
   socket, a pong timer is armed for heartbeatTimeout and the interval is armed
   again; a pong timer that fires while a ping is unanswered terminates the
   socket; and the close of a terminated socket schedules a reconnection
   unless the caller has disconnected. *)
C19_HeartbeatDetectsDeadConnection ==
    [][\A s \in Sockets :
          /\ (SoleSocket(s) /\ readyState[s] = "OPEN" /\ authenticated) => HeartbeatRuns
          /\ (HeartbeatFires /\ SoleSocket(s) /\ readyState[s] = "OPEN" /\ authenticated)
                => /\ wire'[s].pings = wire[s].pings + 1
                   /\ pongTimers' = Append(pongTimers, now + HeartbeatTimeoutMs)
                   /\ heartbeatTimer' = now + HeartbeatIntervalMs
          /\ \A k \in 1..Len(pongTimers) :
                (PongTimeoutFires(k) /\ SoleSocket(s) /\ wire[s].pings > 0)
                => readyState'[s] = "CLOSING" /\ wire'[s].destroyed
          /\ (SocketClose(s) /\ readyState[s] = "CLOSING" /\ wire[s].destroyed
                /\ ~intentionalClose)
                => ReconnectScheduled]_vars

(* The events of a handler other than the raw 'message' event *)
TypedEvents(c) == SelectSeq(c.emitted, LAMBDA e : e # "message")

(* C20: in every reachable state, handling a malformed frame throws nothing to
   the socket, emits no event besides the raw 'message' event of an envelope,
   and leaves every field of the session as it was, so that any frame handled
   after it is handled as if the malformed one had not arrived. *)
C20_MalformedFrameIsDropped ==
    \A bad \in MalformedFrames :
        LET after == handleMessage(WsHere, bad) IN
        /\ after.thrown = "none"
        /\ TypedEvents(after) = <<>>
        /\ [after EXCEPT !.emitted = <<>>] = WsHere
        /\ \A later \in AuthFrames \cup DataFrames :
              handleMessage([after EXCEPT !.emitted = <<>>], later)
                = handleMessage(WsHere, later)

(* C20 witness: an established session with a topic, its heartbeat armed and
   a ping unanswered, on whose socket frames arrive *)
C20_Witness ==
    /\ IsConnected /\ authenticated /\ ~wire[ws].destroyed
    /\ subscriptions # {}
    /\ heartbeatTimer # Cleared
    /\ pongTimers # <<>>

-----------------------------------------------------------------------------
(* Operations and timers of the rate limiter *)

LimHere ==
    [timestamps |-> timestamps, penaltyUntil |-> penaltyUntil, queue |-> queue,
     processing |-> processing, disposed |-> disposed, pqWake |-> pqWake, calls |-> calls]

LimiterBecomes(l) ==
    /\ timestamps' = l.timestamps /\ penaltyUntil' = l.penaltyUntil /\ queue' = l.queue
    /\ processing' = l.processing /\ disposed' = l.disposed /\ pqWake' = l.pqWake
    /\ calls' = l.calls

LimBecomes(l) ==
    /\ LimiterBecomes(l)
    /\ UNCHANGED <<now, waits, listeners, wsVars, retryVars, requests, parserVars>>

(* History: call i remembers the oldest timestamp it was queued behind *)
NoteQueued(l, i) ==
    IF l.calls[i].state = "queued" /\ l.calls[i].behind = Cleared
    THEN [l EXCEPT !.calls[i].behind = l.timestamps[1]]
    ELSE l

(* limiter.acquire() *)
Acquire ==
    /\ Len(calls) < MaxCalls
    /\ LimBecomes(NoteQueued(acquire(LimHere), Len(calls) + 1))

(* limiter.penalize(retryAfterMs) *)
Penalize(retryAfterMs) == LimBecomes(penalize(LimHere, retryAfterMs))

(* limiter.dispose() *)
Dispose == LimBecomes(dispose(LimHere))

(* The penalty sleep of acquire() call i ends *)
AcquireWakes(i) ==
    /\ calls[i].state = "sleeping"
    /\ now >= calls[i].wake
    /\ LimBecomes(NoteQueued(acquireSlot([LimHere EXCEPT !.calls[i].wake = Cleared], i), i))

(* The sleep of processQueue() ends *)
ProcessQueueWakes ==
    /\ pqWake.kind # "none"
    /\ now >= pqWake.at
    /\ LET awake == [LimHere EXCEPT !.pqWake = NoSleep] IN
       IF pqWake.kind = "penalty" THEN LimBecomes(processQueueBody(awake))
       ELSE LimBecomes(processQueueLoop(awake))

LimTimerDue ==
    \/ \E i \in 1..Len(calls) : calls[i].state = "sleeping" /\ calls[i].wake <= now
    \/ pqWake.kind # "none" /\ pqWake.at <= now

LimTick ==
    /\ now < LimMaxNow
    /\ ~LimTimerDue
    /\ now' = now + 1
    /\ UNCHANGED <<waits, listeners, wsVars, httpVars, parserVars>>

InitLimiter == NewSession /\ NewLimiter /\ NoRetry

NextLimiter ==
    \/ Acquire
    \/ \E ms \in RetryAfters : Penalize(ms)
    \/ Dispose
    \/ \E i \in 1..Len(calls) : AcquireWakes(i)
    \/ ProcessQueueWakes
    \/ LimTick

SpecLimiter == InitLimiter /\ [][NextLimiter]_vars

-----------------------------------------------------------------------------
(* Properties of the rate limiter, checked under SpecLimiter *)

(* The timestamps that have not aged out of the window *)
InWindow == SelectSeq(timestamps, LAMBDA t : ~(t < now - WindowMs))

(* C21: in every reachable state the number of recorded timestamps that have
   not aged out of the window is at most maxRequests. *)
C21_UsageNeverExceedsMax == Len(InWindow) <= MaxRequests

(* C21 witness: the window is full and a caller is queued behind it *)
C21_Witness ==
    /\ Len(InWindow) = MaxRequests
    /\ queue # <<>>
    /\ penaltyUntil > 0

(* The step grants a slot to acquire() call i: the call records a timestamp *)
GrantedNow(i) ==
    /\ i \in 1..Len(calls')
    /\ calls'[i].slot # Cleared
    /\ i \in 1..Len(calls) => calls[i].slot = Cleared

(* C22: no step grants a slot to an acquire() call at an instant before the
   penalty deadline, whether the call is new, wakes from its penalty sleep or
   is served from the queue. *)
C22_NoGrantDuringPenalty ==
    [][\A i \in 1..MaxCalls : GrantedNow(i) => ~(now < penaltyUntil)]_vars

(* acquire() call i has been called and has neither returned nor been rejected *)
StillWaiting(i) == calls'[i].state \in {"sleeping", "queued"}

(* C23: calls being numbered in the order of their arrival, no step grants a
   slot to a call while a call that arrived before it is still waiting,
   asleep in its penalty sleep or in the queue. *)
C23_GrantedInArrivalOrder ==
    [][\A j \in 1..MaxCalls :
          GrantedNow(j) => \A i \in 1..(j - 1) : ~StillWaiting(i)]_vars

(* C24: an acquire() called while the window holds maxRequests timestamps,
   with no penalty and the limiter not disposed, is queued; and a queued call
   settles only by a grant after the timestamp that was the oldest when it was
   queued has aged out of the window, or by the rejection of dispose(). *)
C24_QueuedUntilOldestAgesOut ==
    [][/\ (Len(InWindow) = MaxRequests /\ ~disposed /\ ~(penaltyUntil > now))
            => acquire(LimHere).calls[Len(calls) + 1].state = "queued"
       /\ \A i \in 1..Len(calls) :
            (calls[i].state = "queued" /\ calls'[i].state # "queued")
            => \/ /\ calls'[i].state = "rejected"
                  /\ calls'[i].reason = LimiterDisposed
                  /\ Dispose
               \/ /\ calls'[i].state = "resolved"
                  /\ calls[i].behind < now - WindowMs]_vars

(* C24 witness: a call that was queued behind a full window has been granted
   its slot *)
C24_Witness ==
    \E i \in 1..Len(calls) :
        /\ calls[i].behind # Cleared
        /\ calls[i].state = "resolved"
        /\ calls[i].slot > calls[i].behind + WindowMs

(* Call i is an entry of the queue *)
InQueue(i) == \E k \in 1..Len(queue) : queue[k] = i

(* C25: in every reachable state, dispose() rejects every entry of the queue
   with 'RateLimiter disposed', settles nothing else and leaves the queue
   empty; and once the limiter is disposed, acquire() returns at once: it
   returns without a timestamp and changes neither the timestamps nor the
   queue nor any sleep. *)
C25_DisposeRejectsQueue ==
    /\ LET after == dispose(LimHere) IN
       /\ after.disposed
       /\ after.queue = <<>>
       /\ \A i \in 1..Len(calls) :
             IF InQueue(i)
             THEN /\ calls[i].state = "queued"
                  /\ after.calls[i].state = "rejected"
                  /\ after.calls[i].reason = LimiterDisposed
             ELSE after.calls[i] = calls[i]
    /\ disposed =>
          LET after == acquire(LimHere)
              i == Len(calls) + 1
          IN  /\ after.calls[i] = [NewCall EXCEPT !.state = "resolved"]
              /\ [after EXCEPT !.calls = calls] = LimHere

(* C25 witness: a queued call was rejected by dispose() and a later call has
   returned without a slot *)
C25_Witness ==
    /\ disposed
    /\ \E i, j \in 1..Len(calls) :
          /\ i < j
          /\ calls[i].state = "rejected" /\ calls[i].reason = LimiterDisposed
          /\ calls[j].state = "resolved" /\ calls[j].slot = Cleared

-----------------------------------------------------------------------------
(* The retry() call and the outcomes of its operation *)

RetryBecomes(r) ==
    /\ retrying' = r
    /\ UNCHANGED <<now, waits, listeners, wsVars, limiterVars, options, requests, parserVars>>

(* retry(fn, options) *)
Retry ==
    /\ retrying.pc = "idle"
    /\ RetryBecomes(retryLoop(retrying, options))

(* fn() resolves *)
FnReturns ==
    /\ retrying.pc = "calling"
    /\ RetryBecomes([retrying EXCEPT !.pc = "returned"])

(* fn() rejects with a failure *)
FnFails(failure, draw) ==
    /\ retrying.pc = "calling"
    /\ RetryBecomes(retryCatch(retrying, options,
                               [failure EXCEPT !.n = retrying.invocations], draw))

(* sleep(waitMs) ends *)
RetryWakes ==
    /\ retrying.pc = "sleeping"
    /\ RetryBecomes(retryContinue(retrying, options))

InitRetry ==
    /\ NewSession /\ NewLimiter
    /\ options \in RetryOptions
    /\ retrying = NotRetrying
    /\ requests = <<>>
    /\ NoEnvelope

NextRetry ==
    \/ Retry
    \/ FnReturns
    \/ \E failure \in Failures, draw \in JitterDraws : FnFails(failure, draw)
    \/ RetryWakes

SpecRetry == InitRetry /\ [][NextRetry]_vars

-----------------------------------------------------------------------------
(* Properties of the retry engine, checked under SpecRetry *)

(* C26: with a hook that does not fail, retry() invokes the operation at most
   `attempts` times; a failure for which shouldRetry is false ends the call
   with that very error; a call that has ended with an error has invoked the
   operation at least once and throws the error its last invocation raised;
   and with shouldRetry always false the operation is invoked exactly once. *)
C26_StopsAndRethrowsLastError ==
    options.onRetry # "throws" =>
        /\ retrying.invocations <= options.attempts
        /\ \A failure \in Failures :
              (retrying.pc = "calling" /\ ~shouldRetry(options, failure))
              => LET raised == [failure EXCEPT !.n = retrying.invocations]
                     after == retryCatch(retrying, options, raised, 0)
                 IN  after.pc = "thrown" /\ after.thrown = raised
        /\ retrying.pc = "thrown"
              => /\ retrying.invocations >= 1
                 /\ retrying.thrown = retrying.lastError
                 /\ retrying.thrown.n = retrying.invocations
        /\ (options.shouldRetry = "never" /\ retrying.pc \in {"returned", "thrown"})
              => retrying.invocations = 1

(* The reference policy for the wait before retry k after `error`: the
   override when the extractor returns one, else delay * multiplier^(k-1) *)
ReferenceWait(k, error) ==
    IF getRetryAfterMs(options, error) # NoRetryAfter
    THEN getRetryAfterMs(options, error)
    ELSE options.delay * Pow(options.backoffMultiplier, k - 1)

(* C27: when the k-th invocation fails and the failure is retried, the wait is
   the override of the extractor when it returns one, whatever the jitter
   setting, and otherwise, with jitter disabled, delay * multiplier^(k-1);
   a hook has been called with (k, that wait, the failure) when the wait
   begins. *)
C27_WaitFollowsReferencePolicy ==
    \A failure \in Failures, draw \in JitterDraws :
        LET k == retrying.invocations
            raised == [failure EXCEPT !.n = k]
            after == retryCatch(retrying, options, raised, draw)
        IN  (retrying.pc = "calling" /\ after.pc = "sleeping")
            => /\ (getRetryAfterMs(options, raised) # NoRetryAfter \/ ~options.jitter)
                      => after.waitMs = ReferenceWait(k, raised)
               /\ options.onRetry = "returns"
                      => after.notified
                            = Append(retrying.notified, <<k, after.waitMs, raised>>)
               /\ options.onRetry = "none" => after.notified = retrying.notified

(* The second retry waits delay * multiplier after a first retry that waited
   for an override, and the hook was told of both *)
C27_Witness ==
    /\ retrying.pc = "sleeping"
    /\ ~options.jitter
    /\ retrying.attempt = 1
    /\ retrying.waitMs = 16
    /\ Len(retrying.notified) = 2
    /\ retrying.notified[1][2] = 3
    /\ retrying.notified[2] = <<2, 16, retrying.lastError>>

(* What the caller of retry() and the operation can observe of a call *)
ControlFlow(r) ==
    [pc |-> r.pc, attempt |-> r.attempt, invocations |-> r.invocations,
     thrown |-> r.thrown, waitMs |-> r.waitMs]

(* C28: the onRetry hook does not affect the control flow of retry(): after
   any failure of the operation, the call goes on (waits, or ends with an
   error, after the same number of invocations) exactly as it does with no
   hook supplied, whatever the hook does, a failing hook included. *)
C28_HookDoesNotAffectControlFlow ==
    \A failure \in Failures, draw \in JitterDraws :
        retrying.pc = "calling"
        => LET raised == [failure EXCEPT !.n = retrying.invocations]
               noHook == [options EXCEPT !.onRetry = "none"]
           IN  ControlFlow(retryCatch(retrying, options, raised, draw))
                   = ControlFlow(retryCatch(retrying, noHook, raised, draw))

-----------------------------------------------------------------------------
(* HttpClient.request: retry() around limiter.acquire() and executeRequest() *)

(* Configured retryDelay, in the unit of the limiter's clock *)
RetryDelayMs == 2

(* A request() call: its retry() call, the acquire() calls its invocations
   made, and the end of the sleep its retry() call is suspended in *)
NewRequest(opts) ==
    [retry |-> retryLoop(NotRetrying, opts), acquires |-> <<>>, wake |-> Cleared]

CurrentCall(q) == q.acquires[Len(q.acquires)]

(* fetch() of request j is in flight: executeRequest() runs as soon as the
   acquire() call of the invocation has resolved *)
InFlight(j) ==
    /\ requests[j].retry.pc = "calling"
    /\ calls[CurrentCall(requests[j])].state = "resolved"

(* Mutant: only the first invocation of a request calls acquire(); a retry
   goes to the network on the slot of the first *)
fnAcquiresOnce(l, q) ==
    IF q.retry.pc = "calling"
    THEN IF q.acquires = <<>>
         THEN LET i == Len(l.calls) + 1 IN
              <<NoteQueued(acquire(l), i), [q EXCEPT !.acquires = Append(@, i)]>>
         ELSE <<l, [q EXCEPT !.acquires = Append(@, q.acquires[1])]>>
    ELSE <<l, q>>

(* An invocation of the operation of request q starts: limiter.acquire().
   The result is the limiter and the request. *)
fn(l, q) ==
    IF q.retry.pc = "calling"
    THEN LET i == Len(l.calls) + 1 IN
         <<NoteQueued(acquire(l), i), [q EXCEPT !.acquires = Append(@, i)]>>
    ELSE <<l, q>>

(* The catch block of retry() for request q, with the getRetryAfterMs of
   HttpClient, which penalizes the limiter when it returns an override *)
requestCatch(l, q, opts, error, draw) ==
    LET retried == q.retry.attempt < opts.attempts - 1 /\ shouldRetry(opts, error)
        retryAfterMs == getRetryAfterMs(opts, error)
        caught == retryCatch(q.retry, opts, error, draw)
    IN  <<IF retried /\ retryAfterMs # NoRetryAfter THEN penalize(l, retryAfterMs) ELSE l,
          [q EXCEPT !.retry = caught,
                    !.wake = IF caught.pc = "sleeping" THEN now + caught.waitMs
                             ELSE Cleared]>>

(* What fetch() answers a request with when executeRequest() throws: 429 with
   a Retry-After header, a server error, an authentication failure *)
Responses ==
    { Failure("EToroRateLimitError", 429, 3),
      Failure("EToroApiError", 500, NoRetryAfter),
      Failure("EToroAuthError", 401, NoRetryAfter) }

(* The error acquire() rejects with when the limiter is disposed of *)
DisposedError == Failure("Error", 0, NoRetryAfter)

HttpBecomes(l, rs) ==
    /\ LimiterBecomes(l)
    /\ requests' = rs
    /\ UNCHANGED <<now, waits, listeners, wsVars, retryVars, parserVars>>

(* http.request(options) *)
HttpRequest ==
    /\ Len(requests) < MaxHttpRequests
    /\ LET started == fn(LimHere, NewRequest(options)) IN
       HttpBecomes(started[1], Append(requests, started[2]))

(* fetch() resolves with a 2xx response *)
FetchResolves(j) ==
    /\ InFlight(j)
    /\ HttpBecomes(LimHere, [requests EXCEPT ![j].retry.pc = "returned"])

(* fetch() rejects, or resolves with a response executeRequest() throws for *)
FetchFails(j, failure, draw) ==
    /\ InFlight(j)
    /\ LET raised == [failure EXCEPT !.n = requests[j].retry.invocations]
           caught == requestCatch(LimHere, requests[j], options, raised, draw)
       IN  HttpBecomes(caught[1], [requests EXCEPT ![j] = caught[2]])

(* sleep(waitMs) of the retry() call of request j ends *)
RequestWakes(j) ==
    /\ requests[j].retry.pc = "sleeping"
    /\ now >= requests[j].wake
    /\ LET awake == [requests[j] EXCEPT !.retry = retryContinue(@, options),
                                        !.wake = Cleared]
           started == fn(LimHere, awake)
       IN  HttpBecomes(started[1], [requests EXCEPT ![j] = started[2]])

(* http.dispose(): the queued acquire() calls reject, and so do the
   invocations that await them *)
HttpDispose ==
    /\ ~disposed
    /\ LET l == dispose(LimHere) IN
       HttpBecomes(l,
           [j \in DOMAIN requests |->
               IF /\ requests[j].retry.pc = "calling"
                  /\ l.calls[CurrentCall(requests[j])].state = "rejected"
               THEN requestCatch(l, requests[j], options,
                                 [DisposedError EXCEPT !.n = requests[j].retry.invocations],
                                 0)[2]
               ELSE requests[j]])

HttpTimerDue ==
    \/ LimTimerDue
    \/ \E j \in 1..Len(requests) :
          requests[j].retry.pc = "sleeping" /\ requests[j].wake <= now

HttpTick ==
    /\ now < HttpMaxNow
    /\ ~HttpTimerDue
    /\ now' = now + 1
    /\ UNCHANGED <<waits, listeners, wsVars, httpVars, parserVars>>

InitHttp ==
    /\ NewSession /\ NewLimiter
    /\ options \in {HttpOptions(n, RetryDelayMs) : n \in 0..MaxRetryAttempts}
    /\ retrying = NotRetrying
    /\ requests = <<>>
    /\ NoEnvelope

NextHttp ==
    \/ HttpRequest
    \/ \E j \in 1..Len(requests) : FetchResolves(j)
    \/ \E j \in 1..Len(requests), failure \in Responses, draw \in JitterDraws :
          FetchFails(j, failure, draw)
    \/ \E j \in 1..Len(requests) : RequestWakes(j)
    \/ \E i \in 1..Len(calls) : AcquireWakes(i)
    \/ ProcessQueueWakes
    \/ HttpDispose
    \/ HttpTick

SpecHttp == InitHttp /\ [][NextHttp]_vars

-----------------------------------------------------------------------------
(* Properties of HttpClient.request, checked under SpecHttp *)

(* The network calls of request j: the invocations whose acquire() resolved *)
NetworkCalls(j) ==
    Cardinality({k \in 1..Len(requests[j].acquires) :
                    calls[requests[j].acquires[k]].state = "resolved"})

(* The failures the client is to retry: 429, status >= 500, network failures *)
Transient(error) ==
    error.status = 429 \/ error.status >= 500 \/ error.kind = "TypeError"

(* C29: a request makes at most retryAttempts network calls; a failure is
   followed by a wait and another call only if it is a 429, an API failure
   with status >= 500 or a network failure; a 401 or another 4xx failure ends
   the request at once with that very error, so that a request whose first
   response is such a failure has made exactly one network call. *)
C29_RetriesOnlyTransientFailures ==
    \A j \in 1..Len(requests) :
        LET q == requests[j] IN
        /\ NetworkCalls(j) <= options.attempts
        /\ \A failure \in Failures, draw \in JitterDraws :
              InFlight(j)
              => LET raised == [failure EXCEPT !.n = q.retry.invocations]
                     caught == requestCatch(LimHere, q, options, raised, draw)[2]
                 IN  /\ caught.retry.pc = "sleeping" => Transient(raised)
                     /\ ~Transient(raised)
                           => /\ caught.retry.pc = "thrown"
                              /\ caught.retry.thrown = raised
                              /\ caught.acquires = q.acquires
        /\ (q.retry.pc = "thrown" /\ q.retry.thrown.status \in {401, 404})
              => /\ NetworkCalls(j) = q.retry.thrown.n
                 /\ Len(q.acquires) = q.retry.thrown.n
        /\ \A k \in 1..Len(q.retry.notified) : Transient(q.retry.notified[k][3])

(* One request ended with a 401 after a single network call, and another
   has made retryAttempts = 2 network calls, the second after a 429 *)
C29_Witness ==
    /\ options.attempts = 2
    /\ \E j \in 1..Len(requests) :
          /\ requests[j].retry.pc = "thrown"
          /\ requests[j].retry.thrown.status = 401
          /\ NetworkCalls(j) = 1
    /\ \E j \in 1..Len(requests) :
          /\ NetworkCalls(j) = 2
          /\ requests[j].retry.notified # <<>>
          /\ requests[j].retry.notified[1][3].status = 429

(* Request j is retried after a 429 with a Retry-After that has not elapsed *)
BackingOff(j) ==
    /\ requests[j].retry.pc = "sleeping"
    /\ getRetryAfterMs(options, requests[j].retry.lastError) # NoRetryAfter
    /\ now < requests[j].wake

(* C30: while a request waits out the retry-after R of a 429 it is retried
   for, the limiter's penalty lasts at least until R has elapsed, and no
   acquire() call of the client, new or already waiting, is granted a slot. *)
C30_PenaltyHoldsBackOtherRequests ==
    [][\A j \in 1..Len(requests) :
          (BackingOff(j) /\ ~disposed)
          => /\ penaltyUntil >= requests[j].wake
             /\ \A i \in 1..Len(calls') :
                   calls'[i].state = "resolved"
                   => i <= Len(calls) /\ calls[i].state = "resolved"]_vars

(* The invocations of the requests, as pairs <<request, invocation>> *)
Invocations ==
    {<<j, k>> \in (1..Len(requests)) \X (1..MaxRetryAttempts + 1) :
        k <= Len(requests[j].acquires)}

(* The network calls started at the instants t .. t + WindowMs *)
StartedWithin(t) ==
    {v \in Invocations :
        LET call == calls[requests[v[1]].acquires[v[2]]] IN
        call.state = "resolved" /\ call.slot >= t /\ call.slot <= t + WindowMs}

(* C31: while the limiter is not disposed, every invocation of every request,
   first attempt or retry, has an acquire() call of its own, its network call
   starts only when that call is granted, and no more than maxRequests network
   calls start within any window of windowMs. *)
C31_EveryAttemptAcquires ==
    ~disposed =>
        /\ \A v \in Invocations :
              /\ requests[v[1]].acquires[v[2]] \in 1..Len(calls)
              /\ \A w \in Invocations :
                    requests[v[1]].acquires[v[2]] = requests[w[1]].acquires[w[2]] => v = w
        /\ \A j \in 1..Len(requests) :
              /\ Len(requests[j].acquires) = requests[j].retry.invocations
              /\ InFlight(j) => calls[CurrentCall(requests[j])].slot # Cleared
        /\ \A t \in 0..HttpMaxNow : Cardinality(StartedWithin(t)) <= MaxRequests

(* A retry was granted a slot of its own while the window was full *)
C31_Witness ==
    /\ ~disposed
    /\ \E j \in 1..Len(requests) :
          /\ Len(requests[j].acquires) = 2
          /\ InFlight(j)
          /\ calls[requests[j].acquires[1]].slot < calls[requests[j].acquires[2]].slot
    /\ \E t \in 0..HttpMaxNow : Cardinality(StartedWithin(t)) = MaxRequests

-----------------------------------------------------------------------------
(* parseMessages applied to an envelope *)

ParseMessages ==
    /\ ~parsed.done
    /\ parsed' = parseMessages(envelope)
    /\ UNCHANGED <<now, waits, listeners, wsVars, httpVars, envelope>>

InitParser ==
    /\ NewSession /\ NewLimiter
    /\ options = HttpOptions(3, 8) /\ retrying = NotRetrying /\ requests = <<>>
    /\ envelope \in Envelopes
    /\ parsed = NotParsed

NextParser == ParseMessages

SpecParser == InitParser /\ [][NextParser]_vars

(* Topics of the form instrument:<integer-id> *)
IsInstrumentTopic(topic) ==
    /\ Len(topic) = 2
    /\ topic[1] = <<"instrument">>
    /\ topic[2] # <<>>
    /\ \A k \in 1..Len(topic[2]) : IsDigit(topic[2][k])

(* The integer a string of digits denotes *)
RECURSIVE IntegerOf(_)
IntegerOf(chars) ==
    IF chars = <<>> THEN 0
    ELSE 10 * IntegerOf(SubSeq(chars, 1, Len(chars) - 1)) + DigitValue(chars[Len(chars)])

(* C32: when parseMessages returns, it returns one result per entry, in the
   order of the entries: an instrument-rate result exactly for the topics of
   the form instrument:<integer-id>, keyed by that integer; a private-event
   result exactly for the topic private; an unknown result carrying the raw
   entry for every other topic. *)
C32_OneClassifiedResultPerEntry ==
    (parsed.done /\ ~parsed.thrown) =>
        /\ Len(parsed.results) = Len(envelope)
        /\ \A k \in 1..Len(envelope) :
              LET topic == envelope[k].topic
                  result == parsed.results[k]
              IN  /\ result.type = "instrument:rate" <=> IsInstrumentTopic(topic)
                  /\ result.type = "instrument:rate"
                        => result.instrumentId = [nan |-> FALSE, n |-> IntegerOf(topic[2])]
                  /\ result.type = "private:event" <=> topic = << <<"private">> >>
                  /\ result.type = "unknown"
                        <=> ~IsInstrumentTopic(topic) /\ topic # << <<"private">> >>
                  /\ result.type = "unknown" => result.raw = envelope[k]

-----------------------------------------------------------------------------
(* The REST poll fallback, checked under SpecOrder *)

(* C33: a getOrder request that fails, with an API failure or with a network
   failure, does not end the poll loop: the loop sleeps for the poll interval,
   and when the sleep ends within the time budget it issues the next request. *)
C33_PollSurvivesFailedFetch ==
    [][\A i \in 1..Len(waits) :
          /\ \A outcome \in GetOrderOutcomes :
                (GetOrderSettles(i, outcome) /\ outcome.kind # "info")
                => /\ waits'[i].pollPc = "sleeping"
                   /\ waits'[i].pollWake = now + PollIntervalMs
          /\ (PollWakes(i) /\ now - waits[i].pollStart < PollBudget(waits[i]))
                => waits'[i].pollPc = "fetching"]_vars

-----------------------------------------------------------------------------
(* Progress of the WebSocket session.  Timers fire, time passes, and a socket
   that is closing reports its close; the far end and the caller owe nothing. *)

WsTimerFires ==
    \/ \E s \in Sockets : AuthTimeoutFires(s)
    \/ \E k \in 1..Len(reconnectTimers) : ReconnectTimerFires(k)
    \/ HeartbeatFires
    \/ \E k \in 1..Len(pongTimers) : PongTimeoutFires(k)

ClosingSocketCloses == \E s \in Sockets : readyState[s] = "CLOSING" /\ SocketClose(s)

FairSpecWs ==
    /\ SpecWs
    /\ WF_vars(WsTimerFires)
    /\ WF_vars(WsTick)
    /\ WF_vars(ClosingSocketCloses)

(* A reconnect is scheduled or in progress: a reconnect timer is armed, a
   connect() call has not settled, or a closing socket has yet to report *)
ReconnectInProgress ==
    \/ reconnectTimers # <<>>
    \/ \E s \in Sockets : conns[s].promise = "pending"
    \/ \E s \in Sockets : readyState[s] = "CLOSING"

(* The socket of the session was opened by the reconnect path, that is after
   an unexpected close, and the session rests unauthenticated on it *)
Stranded ==
    /\ ws # NoSocket
    /\ conns[ws].via = "reconnect"
    /\ readyState[ws] = "OPEN"
    /\ ~authenticated
    /\ ~intentionalClose
    /\ ~ReconnectInProgress

(* C34: after an unexpected close and without disconnect(), the session is
   never left forever unauthenticated with no reconnect attempt scheduled or
   in progress: it is authenticated again, or goes on reconnecting until the
   fatal error. *)
C34_SessionRecoversOrGivesUp == []<>(~Stranded)

-----------------------------------------------------------------------------
(* More properties of the WebSocket session, checked under SpecWs *)

(* Socket s is live: it was created and nobody has closed it *)
Live(s) == readyState[s] \in {"CONNECTING", "OPEN"}

(* C35: a client has at most one live socket: when connect() creates a
   socket, every socket created before is closed or is being closed, and the
   live socket is the one the session holds. *)
C35_AtMostOneLiveSocket ==
    \A s \in Sockets : Live(s) => s = ws

(* C36: a subscribe() or unsubscribe() call that throws because no socket is
   open leaves the subscription set as it was. *)
C36_FailedCallLeavesSetUnchanged ==
    \A topics \in TopicLists :
        /\ subscribe(WsHere, topics).thrown # "none"
              => subscribe(WsHere, topics).subscriptions = subscriptions
        /\ unsubscribe(WsHere, topics).thrown # "none"
              => unsubscribe(WsHere, topics).subscriptions = subscriptions

(* The step is the heartbeat terminating the socket of the session *)
HeartbeatTerminates ==
    /\ \E k \in 1..Len(pongTimers) : PongTimeoutFires(k)
    /\ ws # NoSocket
    /\ readyState[ws] = "OPEN"
    /\ readyState'[ws] = "CLOSING"

(* C37: whatever the interval and the timeout, the heartbeat terminates the
   only connection of a session only when some ping sent on it has gone
   unanswered for heartbeatTimeout. *)
C37_TerminatesOnlyOnUnansweredPing ==
    [][(HeartbeatTerminates /\ SoleSocket(ws))
       => \E p \in 1..Len(wire[ws].pinged) :
             now - wire[ws].pinged[p] >= HeartbeatTimeoutMs]_vars

-----------------------------------------------------------------------------
(* The fan-out of data envelopes, checked under SpecWs *)

(* The entry has a topic the parser recognizes *)
Recognized(msg) == startsWithInstrument(msg.topic) \/ isPrivate(msg.topic)

(* The typed event of an entry *)
EventOf(msg) == IF isPrivate(msg.topic) THEN "private:event" ELSE "instrument:rate"

RECURSIVE EventsInOrder(_)
EventsInOrder(messages) ==
    IF messages = <<>> THEN <<>>
    ELSE (IF Recognized(Head(messages)) THEN <<EventOf(Head(messages))>> ELSE <<>>)
            \o EventsInOrder(Tail(messages))

(* C38: in every reachable state, handling an envelope emits the raw 'message'
   event first; if the content of some entry with a recognized topic fails to
   parse, no instrument-rate or private event is emitted for any entry of the
   envelope; otherwise one typed event is emitted per recognized entry, in
   the order of the entries. *)
C38_FanOutIsAllOrNothing ==
    \A raw \in EnvelopeFrames :
        LET after == handleMessage(WsHere, raw)
            bad == \E k \in 1..Len(raw.messages) :
                      /\ Recognized(raw.messages[k])
                      /\ raw.messages[k].content = "malformed"
        IN  /\ after.emitted # <<>> /\ Head(after.emitted) = "message"
            /\ Tail(after.emitted)
                  = IF bad THEN <<>> ELSE EventsInOrder(raw.messages)

(* C38 witness: envelopes arrive on the open socket of an authenticated
   session, among them one whose second entry is bad after a first entry in
   order, and one of two recognized entries in order *)
C38_Witness ==
    /\ IsConnected /\ authenticated
    /\ ~wire[ws].destroyed /\ ~wire[ws].aborted
    /\ handleMessage(WsHere, BadEnvelope).emitted = <<"message">>
    /\ handleMessage(WsHere, Envelope).emitted
          = <<"message", "instrument:rate", "private:event">>

-----------------------------------------------------------------------------
(* Progress of the rate limiter.  A sleep that is due ends, and the clock
   advances while no sleep is due. *)

SleepEnds ==
    \/ \E i \in 1..Len(calls) : AcquireWakes(i)
    \/ ProcessQueueWakes

FairSpecLimiter ==
    /\ SpecLimiter
    /\ WF_vars(SleepEnds)
    /\ WF_vars(LimTick)

(* acquire() call i has been made and its promise is settled *)
Settled(i) == i <= Len(calls) /\ calls[i].state \in {"resolved", "rejected"}

(* acquire() call i has been made and its promise is pending *)
InProgress(i) == i <= Len(calls) /\ calls[i].state \in {"running", "sleeping", "queued"}

(* The sleep call i depends on ends after the last instant of the clock *)
SleepsPastHorizon(i) ==
    /\ i <= Len(calls)
    /\ \/ calls[i].state = "sleeping" /\ calls[i].wake > LimMaxNow
       \/ calls[i].state = "queued" /\ pqWake.kind # "none" /\ pqWake.at > LimMaxNow

(* C39: every acquire() call in progress while the limiter is disposed, a call
   sleeping out a penalty included, eventually settles (short of a sleep that
   outlasts the clock). *)
C39_InProgressAtDisposeSettles ==
    \A i \in 1..MaxCalls :
        (disposed /\ InProgress(i)) ~> (Settled(i) \/ SleepsPastHorizon(i))

-----------------------------------------------------------------------------
(* The rate limiter over unbounded time, without penalties.  Once the clock
   has reached LimMaxNow the limiter is watched from a frame that moves with
   the clock: a millisecond passing moves every instant the limiter holds one
   millisecond into the past, and an instant that has reached 0 has aged out
   of every window and stays at 0.  A caller whose acquire() has settled
   moves on, and its call is forgotten. *)

Earlier(t) == IF t <= 0 THEN t ELSE t - 1

Aged(l) ==
    [l EXCEPT !.timestamps = [k \in DOMAIN @ |-> Earlier(@[k])],
              !.penaltyUntil = Earlier(@),
              !.pqWake = [@ EXCEPT !.at = Earlier(@)],
              !.calls = [i \in DOMAIN @ |->
                            [@[i] EXCEPT !.wake = Earlier(@), !.slot = Earlier(@),
                                         !.behind = Earlier(@)]]]

(* A millisecond passes while no sleep is due *)
MillisecondPasses ==
    /\ ~LimTimerDue
    /\ IF now < LimMaxNow
       THEN /\ now' = now + 1
            /\ UNCHANGED <<waits, listeners, wsVars, httpVars, parserVars>>
       ELSE LimBecomes(Aged(LimHere))

(* The caller of the latest acquire() call, which has settled, moves on *)
CallEnds ==
    /\ calls # <<>>
    /\ calls[Len(calls)].state \in {"resolved", "rejected"}
    /\ LimBecomes([LimHere EXCEPT !.calls = SubSeq(@, 1, Len(@) - 1)])

NextSteady ==
    \/ Acquire
    \/ Dispose
    \/ ProcessQueueWakes
    \/ CallEnds
    \/ MillisecondPasses

SpecSteady == InitLimiter /\ [][NextSteady]_vars

FairSpecSteady ==
    /\ SpecSteady
    /\ WF_vars(ProcessQueueWakes)
    /\ WF_vars(MillisecondPasses)

(* C40: while the limiter is not disposed and no penalty is imposed, every
   acquire() call is eventually granted as time advances, even while other
   acquire() calls keep arriving. *)
C40_EveryAcquireIsGranted ==
    \A i \in 1..MaxCalls :
        InProgress(i) ~> ((i <= Len(calls) /\ calls[i].state = "resolved") \/ disposed)

====
